---- MODULE Spec2Model ----
(***************************************************************************)
(* Model of the cloud storage adapter: CloudBlobClient (object store       *)
(* wrapper), CloudExtensionBasedMapper (identifier <-> key mapping) and    *)
(* CloudDataAccessor (document / container operations).                    *)
(*                                                                         *)
(* Strings are sequences of tokens.  A token is either one of the          *)
(* punctuation characters "!", "$", ".", "/" or an atomic run of word      *)
(* characters ("a", "txt", "meta", ...).  No token is a prefix of another, *)
(* so prefix tests and the byte order of the object listing are the same   *)
(* on tokens as on characters.                                             *)
(***************************************************************************)
EXTENDS Integers, Sequences, FiniteSets, TLC

None == "none"

\* The set S built element by element: a set kept in a record is held in
\* one canonical form.
Canonical(S) == {x \in S : TRUE}

\* ------------------------------------------------------------------------
\* Strings
\* ------------------------------------------------------------------------

WordToks == {"a", "bin", "c", "meta", "root", "base", "templates", "ttl", "txt",
             "unknown", "xml"}

\* Byte order of the first character of every token.
TokRank(t) ==
  CASE t = "!" -> 1
    [] t = "$" -> 2
    [] t = "." -> 3
    [] t = "/" -> 4
    [] t = "a" -> 5
    [] t = "base" -> 6
    [] t = "bin" -> 7
    [] t = "c" -> 8
    [] t = "meta" -> 9
    [] t = "root" -> 10
    [] t = "templates" -> 11
    [] t = "ttl" -> 12
    [] t = "txt" -> 13
    [] t = "unknown" -> 14
    [] t = "xml" -> 15

StartsWith(s, p) ==
  /\ Len(p) <= Len(s)
  /\ SubSeq(s, 1, Len(p)) = p

EndsWith(s, x) ==
  /\ Len(x) <= Len(s)
  /\ SubSeq(s, Len(s) - Len(x) + 1, Len(s)) = x

\* s.slice(n)
SliceFrom(s, n) == SubSeq(s, n + 1, Len(s))

\* s.slice(0, -n)
DropLast(s, n) == SubSeq(s, 1, Len(s) - n)

\* Strict byte order of two keys, as the object store lists them.
KeyLess(s, t) ==
  \E i \in 1..(Len(s) + 1) :
    /\ \A j \in 1..(i - 1) : j <= Len(t) /\ s[j] = t[j]
    /\ \/ i = Len(s) + 1 /\ Len(t) > Len(s)
       \/ i <= Len(s) /\ i <= Len(t) /\ TokRank(s[i]) < TokRank(t[i])

\* The keys of a set in listing order.
RECURSIVE SortKeys(_)
SortKeys(S) ==
  IF S = {} THEN <<>>
  ELSE LET m == CHOOSE k \in S : \A o \in S \ {k} : KeyLess(k, o)
       IN <<m>> \o SortKeys(S \ {m})

\* Length of the longest suffix of s made of tokens outside "bad".
RECURSIVE TailRun(_, _)
TailRun(s, bad) ==
  IF s = <<>> \/ s[Len(s)] \in bad THEN 0
  ELSE 1 + TailRun(DropLast(s, 1), bad)

\* getExtension: /\.([^./]+)$/
getExtension(path) ==
  LET n == TailRun(path, {".", "/"})
  IN IF n > 0 /\ n < Len(path) /\ path[Len(path) - n] = "."
     THEN SubSeq(path, Len(path) - n + 1, Len(path))
     ELSE <<>>

\* /\$\.\w+$/u.test(filePath)
\* A check of the reserved suffix that lets every path through.
NeverEndsWithDollarExtension(filePath) == FALSE

EndsWithDollarExtension(filePath) ==
  LET n == TailRun(filePath, {"!", "$", ".", "/"})
  IN /\ n > 0
     /\ n + 2 <= Len(filePath)
     /\ filePath[Len(filePath) - n] = "."
     /\ filePath[Len(filePath) - n - 1] = "$"

isContainerPath(path) == path # <<>> /\ path[Len(path)] = "/"

\* ------------------------------------------------------------------------
\* Content types and the extension tables
\* ------------------------------------------------------------------------

TextPlain == "text/plain"
TextTurtle == "text/turtle"
TextXml == "text/xml"
ApplicationXml == "application/xml"
OctetStream == "application/octet-stream"
UnknownType == "unknown/content-type"

\* mime.lookup(extension): the type registered for an extension, or none.
MimeLookup(ext) ==
  CASE ext = <<"txt">> -> TextPlain
    [] ext = <<"ttl">> -> TextTurtle
    [] ext = <<"xml">> -> ApplicationXml
    [] ext = <<"bin">> -> OctetStream
    [] OTHER -> None

\* mime.extension(contentType): the default extension of a type, or none.
MimeExtension(ct) ==
  CASE ct = TextPlain -> <<"txt">>
    [] ct = TextTurtle -> <<"ttl">>
    [] ct = TextXml -> <<"xml">>
    [] ct = ApplicationXml -> <<"xml">>
    [] ct = OctetStream -> <<"bin">>
    [] OTHER -> <<>>

\* DEFAULT_CUSTOM_TYPES: acl and meta are Turtle.
customTypes(ext) ==
  IF ext = <<"meta">> \/ ext = <<"acl">> THEN TextTurtle ELSE None

\* customExtensions: the inverse of customTypes, the last entry winning.
customExtensions(ct) ==
  IF ct = TextTurtle THEN <<"meta">> ELSE <<>>

unknownMediaTypeExtension == <<"unknown">>

metadataSuffix == <<".", "meta">>

rootFilepath == <<"root">>

baseRequestURI == <<"base">>

\* path.join(process.cwd(), 'node_modules', '@solid', 'community-server',
\* 'templates')
templatePath == <<"/", "templates">>

\* A lookup that knows no extension.
getContentTypeAlwaysDefault(filePath) == OctetStream

\* getContentTypeFromPath: table lookup on the extension of the whole path,
\* application/octet-stream when the tables have no entry.
getContentTypeFromPath(filePath) ==
  LET extension == getExtension(filePath)
  IN IF MimeLookup(extension) # None THEN MimeLookup(extension)
     ELSE IF customTypes(extension) # None THEN customTypes(extension)
     ELSE OctetStream

\* A mapper that takes no path for a metadata path.
isMetadataPathNever(path) == FALSE

isMetadataPath(path) == EndsWith(path, metadataSuffix)


\* ------------------------------------------------------------------------
\* CloudExtensionBasedMapper (on BaseFileIdentifierMapper)
\* ------------------------------------------------------------------------

isContainerIdentifier(identifier) == isContainerPath(identifier)

\* getRelativePath: the part of the identifier after the base.
getRelativePath(identifier) == SliceFrom(identifier, Len(baseRequestURI))

\* path.split('/').includes('..')
HasParentSegment(path) ==
  \E i \in 1..(Len(path) - 1) :
    /\ path[i] = "." /\ path[i + 1] = "."
    /\ (i = 1 \/ path[i - 1] = "/")
    /\ (i + 1 = Len(path) \/ path[i + 2] = "/")

\* A validation that looks at the base alone.
validateRelativePathBaseOnly(identifier, isMetadata) ==
  IF ~StartsWith(identifier, baseRequestURI) THEN "NotFound" ELSE None

\* The error of getRelativePath / validateRelativePath, or none.
validateRelativePath(identifier, isMetadata) ==
  IF ~StartsWith(identifier, baseRequestURI) THEN "NotFound"
  ELSE LET rel == getRelativePath(identifier)
           path == IF isMetadata THEN rel \o metadataSuffix ELSE rel
       IN IF ~StartsWith(path, <<"/">>) THEN "BadRequest"
          ELSE IF HasParentSegment(path) THEN "BadRequest"
          ELSE None

\* getAbsolutePath of the relative path (with the sidecar suffix for a
\* metadata request).
candidatePath(identifier, isMetadata) ==
  LET rel == getRelativePath(identifier)
  IN rootFilepath \o (IF isMetadata THEN rel \o metadataSuffix ELSE rel)

\* /^(.*\/)(.*)$/ : the folder is everything up to the last separator.
folderOf(filePath) == DropLast(filePath, TailRun(filePath, {"/"}))

documentNameOf(filePath) == SliceFrom(filePath, Len(folderOf(filePath)))

\* /(?:\$\..+)?$/u.test(rest): an unanchored search for an optional
\* "$." + one or more characters followed by the end of the string.
dollarSuffixTest(rest) ==
  \E i \in 0..Len(rest) :
    LET t == SliceFrom(rest, i)
    IN \/ t = <<>>
       \/ Len(t) >= 3 /\ t[1] = "$" /\ t[2] = "."

\* files.find(...): the first listed file that passes both tests, or <<>>
\* (undefined).
findMatchingFile(files, filePath) ==
  LET folder == folderOf(filePath)
      documentName == documentNameOf(filePath)
      hit(file) ==
        /\ StartsWith(file, folder \o documentName)
        /\ dollarSuffixTest(SliceFrom(file, Len(documentName)))
      idx == {i \in 1..Len(files) : hit(files[i])}
  IN IF idx = {} THEN <<>>
     ELSE files[CHOOSE i \in idx : \A j \in idx : i <= j]

\* The extension the write path appends for a content type, or <<>>.
\* An extension taken from the custom table alone.
extensionForCustomOnly(contentType) == customExtensions(contentType)

extensionFor(contentType) ==
  IF MimeExtension(contentType) # <<>> THEN MimeExtension(contentType)
  ELSE customExtensions(contentType)

Link(identifier, filePath, contentType) ==
  [err |-> None, identifier |-> identifier, filePath |-> filePath,
   contentType |-> contentType, isMetadata |-> isMetadataPath(filePath)]

Failure(kind) ==
  [err |-> kind, identifier |-> <<>>, filePath |-> <<>>,
   contentType |-> None, isMetadata |-> FALSE]

\* mapUrlToDocumentPath.  listed = FALSE when the listing of the folder
\* was rejected; files is the listing otherwise.
mapUrlToDocumentPath(identifier, filePath, contentType, listed, files) ==
  IF EndsWithDollarExtension(filePath) THEN Failure("NotImplemented")
  ELSE IF contentType = None THEN
    LET fileName == IF listed THEN findMatchingFile(files, filePath) ELSE <<>>
        found == IF fileName # <<>> THEN fileName ELSE filePath
    IN Link(identifier, found, getContentTypeFromPath(found))
  ELSE IF contentType # getContentTypeFromPath(filePath) THEN
    LET extension == extensionFor(contentType)
    IN IF extension = <<>>
       THEN Link(identifier, filePath \o <<"$", ".">> \o unknownMediaTypeExtension, None)
       ELSE Link(identifier, filePath \o <<"$", ".">> \o extension, contentType)
  ELSE Link(identifier, filePath, contentType)

\* mapUrlToFilePath
mapUrlToFilePath(identifier, isMetadata, contentType, listed, files) ==
  IF validateRelativePath(identifier, isMetadata) # None
  THEN Failure(validateRelativePath(identifier, isMetadata))
  ELSE LET filePath == candidatePath(identifier, isMetadata)
       IN IF isContainerIdentifier(identifier)
          THEN Link(identifier, filePath, None)
          ELSE mapUrlToDocumentPath(identifier, filePath, contentType, listed, files)

\* True when mapUrlToFilePath lists the parent folder (the read path of a
\* valid document identifier).
needsListing(identifier, isMetadata, contentType) ==
  /\ validateRelativePath(identifier, isMetadata) = None
  /\ ~isContainerIdentifier(identifier)
  /\ ~EndsWithDollarExtension(candidatePath(identifier, isMetadata))
  /\ contentType = None

\* stripExtension: drops a trailing "$." + extension.
\* A reverse mapping that keeps the "$." suffix in the URL.
stripExtensionKeepsAll(path) == path

stripExtension(path) ==
  LET extension == getExtension(path)
  IN IF extension # <<>> /\ EndsWith(path, <<"$", ".">> \o extension)
     THEN DropLast(path, Len(extension) + 2)
     ELSE path

\* mapFilePathToUrl
\* if (!filePath.startsWith(this.internalRootFilepath) &&
\*     !filePath.startsWith(this.templatePath))
outsideStorage(filePath) ==
  ~StartsWith(filePath, rootFilepath) /\ ~StartsWith(filePath, templatePath)

mapFilePathToUrl(filePath, isContainer) ==
  IF outsideStorage(filePath) THEN Failure("InternalServerError")
  ELSE LET relative == SliceFrom(filePath, Len(rootFilepath))
           url == IF isContainer
                  THEN baseRequestURI \o relative
                  ELSE baseRequestURI \o stripExtension(relative)
           contentType == IF isContainer THEN None
                          ELSE getContentTypeFromPath(filePath)
       IN [err |-> None,
           identifier |-> IF isMetadataPath(filePath)
                          THEN DropLast(url, Len(metadataSuffix)) ELSE url,
           filePath |-> filePath,
           contentType |-> contentType,
           isMetadata |-> isMetadataPath(filePath)]


\* ------------------------------------------------------------------------
\* Bounds and inputs
\* ------------------------------------------------------------------------

\* Operations started in one behaviour.
MaxOps == 3

\* Backend requests that may fail in one behaviour of SpecFault.
MaxFaults == 1

Procs == {1, 2}

DocA == <<"base", "/", "a">>
DocABang == <<"base", "/", "a", "!">>
DocATxt == <<"base", "/", "a", ".", "txt">>
DocAMeta == <<"base", "/", "a", ".", "meta">>
DocReserved == <<"base", "/", "a", "$", ".", "txt">>
DocDollarBang == <<"base", "/", "a", "$", ".", "txt", "!">>
DocInDollarDir == <<"base", "/", "a", "$", ".", "txt", "/", "a">>
ContainerA == <<"base", "/", "a", "/">>
ContainerC == <<"base", "/", "c", "/">>
DocCA == <<"base", "/", "c", "/", "a">>
DocCABang == <<"base", "/", "c", "/", "a", "!">>
DocCC == <<"base", "/", "c", "/", "c">>
ContainerCC == <<"base", "/", "c", "/", "c", "/">>
DocCCA == <<"base", "/", "c", "/", "c", "/", "a">>

\* Identifiers outside the base, without "/" after the base, and with a
\* ".." segment inside and at the end.
NoBase == <<"a", "/", "a">>
NoSlash == <<"base", "a">>
DotDotInside == <<"base", "/", ".", ".", "/", "a">>
DotDotLast == <<"base", "/", "a", "/", ".", ".">>

InvalidIds == {NoBase, NoSlash, DotDotInside, DotDotLast}

\* Identifiers the accessor operations are called with.
OpDocs == {DocA, DocABang}

OpContainers == {ContainerC}

\* Identifiers and content types of the operations run against a failing
\* backend.
FaultDocs == {DocA}

FaultTypes == {None, TextTurtle, UnknownType}

\* Documents and content types written before the mapper is called
\* directly.
MapDocs == {DocA, DocATxt, DocAMeta}

MapTypes == {TextPlain, TextTurtle}

\* Identifiers the mapper is called with directly.
MapIds == {DocA, DocABang, DocATxt, DocAMeta, DocReserved, DocDollarBang,
           DocInDollarDir, ContainerC, DocCA}

ContentTypes == {TextPlain, TextTurtle, TextXml, OctetStream, UnknownType}

\* Content types of written documents (none: the metadata has no
\* content type).
WriteTypes == {None, OctetStream, TextTurtle, TextXml, UnknownType}

\* Metadata records are sets of <<predicate, object>> quads.
TypeResource == <<"type", "Resource">>
TypeContainer == <<"type", "Container">>
TypeBasicContainer == <<"type", "BasicContainer">>
Modified == <<"modified", 0>>
Likes == <<"likes", "apples">>
LikesPears == <<"likes", "pears">>

MetaInputs == {{}, {TypeResource, Modified}, {TypeResource, Likes}}

\* Containers and documents of the listings of children.
ChildContainers == {ContainerC, ContainerCC}

ChildDocs == {DocCA, DocCCA}

\* Documents and metadata of the repeated writes of one document.
RewriteDocs == OpDocs \cup {DocATxt, DocAMeta}

RewriteMetas == {{}, {TypeResource, Likes}}

WithContentType(md, ct) ==
  Canonical(IF ct = None THEN md ELSE md \cup {<<"contentType", ct>>})

\* metadata.contentType
contentTypeOf(md) ==
  IF \E q \in md : q[1] = "contentType"
  THEN (CHOOSE q \in md : q[1] = "contentType")[2]
  ELSE None

\* ------------------------------------------------------------------------
\* State
\* ------------------------------------------------------------------------

VARIABLES
  store,          \* the bucket's objects: key -> object
  bucketExists,   \* the bucket exists at the backend
  bucketCreated,  \* CloudBlobClient.bucketCreated of the two clients
  proc,           \* the running operation of every request
  nops,           \* operations started so far
  faults          \* backend failures still to be injected

vars == <<store, bucketExists, bucketCreated, proc, nops, faults>>

EmptyStore == [k \in {} |-> 0]

DataObject(v, t) == [kind |-> "data", v |-> v, q |-> {}, mtime |-> t]

\* serializeQuads(quads)
QuadsObject(q, t) == [kind |-> "quads", v |-> 0, q |-> q, mtime |-> t]

Put(s, key, obj) == [k \in DOMAIN s \cup {key} |-> IF k = key THEN obj ELSE s[k]]

\* A delete that takes every object under the key with it.
RemovePrefix(s, key) == [k \in {x \in DOMAIN s : ~StartsWith(x, key)} |-> s[k]]

Remove(s, key) == [k \in DOMAIN s \ {key} |-> s[k]]

\* containerFileName
containerFileName(path) == path \o <<".", "meta">>

\* containerFileContent: the container types, the path and a version.
containerFileContent(path) ==
  {TypeContainer, TypeBasicContainer, <<"path", "self">>, <<"version", "1">>}

\* The objects listObjectsV2 reports for a prefix without recursion: the
\* keys directly under it, in byte order.
listObjectsV2(s, prefix) ==
  SortKeys({k \in DOMAIN s :
              /\ StartsWith(k, prefix)
              /\ \A i \in (Len(prefix) + 1)..Len(k) : k[i] # "/"})

\* CloudBlobClient.list: the listed names without the folder's own marker.
list(s, path) ==
  LET dir == IF isContainerPath(path) THEN path ELSE path \o <<"/">>
  IN SelectSeq(listObjectsV2(s, dir), LAMBDA name : name # containerFileName(dir))

NoStat == [size |-> 0, mtime |-> 0, container |-> FALSE]

Idle ==
  [op |-> "none", pc |-> "idle", id |-> <<>>, ct |-> None, md |-> {},
   data |-> 0, link |-> Failure("unset"), oldLink |-> Failure("unset"),
   metaLink |-> Failure("unset"), quads |-> {}, wrote |-> FALSE,
   after |-> "done", err |-> None, res |-> {}, stat |-> NoStat,
   entries |-> <<>>, children |-> {}, client |-> None, ret |-> None,
   snap |-> EmptyStore,
   calls |-> <<>>, pre |-> EmptyStore]

Init ==
  /\ store = EmptyStore
  /\ bucketExists \in BOOLEAN
  /\ bucketCreated = [c \in {"mapper", "accessor"} |-> FALSE]
  /\ proc = [p \in Procs |-> Idle]
  /\ nops = 0
  /\ faults = 0

InitFault ==
  /\ store = EmptyStore
  /\ bucketExists \in BOOLEAN
  /\ bucketCreated = [c \in {"mapper", "accessor"} |-> FALSE]
  /\ proc = [p \in Procs |-> Idle]
  /\ nops = 0
  /\ faults = MaxFaults


\* ------------------------------------------------------------------------
\* CloudBlobClient
\* ------------------------------------------------------------------------

\* What the backend does to one step: nothing, a failing bucket request,
\* or a failing object request.
FaultChoices == IF faults > 0 THEN {"none", "bucket", "call"} ELSE {"none"}

Spend(fault) == faults' = IF fault = "none" THEN faults ELSE faults - 1

\* createBucket returns normally.
createBucketOk(client, fault) == bucketCreated[client] \/ fault # "bucket"

\* A createBucket that sets the flag before the backend has answered.
createBucketSetsFlagFirst(client, fault) ==
  IF bucketCreated[client]
  THEN UNCHANGED <<bucketCreated, bucketExists>>
  ELSE /\ bucketCreated' = [bucketCreated EXCEPT ![client] = TRUE]
       /\ bucketExists' = (bucketExists \/ fault # "bucket")

\* createBucket: nothing when the flag is set; otherwise the bucket is
\* looked up and made when missing, and the flag is set unless a request
\* failed.
createBucket(client, fault) ==
  IF bucketCreated[client] \/ fault = "bucket"
  THEN UNCHANGED <<bucketCreated, bucketExists>>
  ELSE /\ bucketCreated' = [bucketCreated EXCEPT ![client] = TRUE]
       /\ bucketExists' = TRUE

\* A createBucket that asks the backend on every call.
createBucketCallsUncached(client, fault) ==
  IF fault = "bucket" THEN <<[call |-> "bucket", key |-> <<>>, ok |-> FALSE]>>
  ELSE IF bucketExists THEN <<[call |-> "bucketExists", key |-> <<>>, ok |-> TRUE]>>
  ELSE <<[call |-> "bucketExists", key |-> <<>>, ok |-> TRUE],
         [call |-> "makeBucket", key |-> <<>>, ok |-> TRUE]>>

\* The bucket requests createBucket issues.
createBucketCalls(client, fault) ==
  IF bucketCreated[client] THEN <<>>
  ELSE IF fault = "bucket" THEN <<[call |-> "bucket", key |-> <<>>, ok |-> FALSE]>>
  ELSE IF bucketExists THEN <<[call |-> "bucketExists", key |-> <<>>, ok |-> TRUE]>>
  ELSE <<[call |-> "bucketExists", key |-> <<>>, ok |-> TRUE],
         [call |-> "makeBucket", key |-> <<>>, ok |-> TRUE]>>

\* A fault is injected only where a request is made.
faultApplies(client, fault, hasBucketStep) ==
  \/ fault = "none"
  \/ fault = "call"
  \/ fault = "bucket" /\ hasBucketStep /\ ~bucketCreated[client]

Call(name, key, ok) == <<[call |-> name, key |-> key, ok |-> ok]>>

\* A write that reports success whatever the put did.
writeReturnsTrue(putOk) == TRUE

\* CloudBlobClient.write: true when the put succeeded, false when it
\* failed; it throws only when createBucket throws.
writeReturns(putOk) == putOk

\* CloudBlobClient.delete: true when the remove succeeded, false when it
\* failed; it never throws.
deleteReturns(ok) == ok

\* CloudBlobClient.delete: removeObject, which succeeds on an absent key
\* and fails when the bucket is missing or the request fails.
removeOk(fault) == bucketExists /\ fault # "call"

\* CloudBlobClient.stats: the object statObject looks at.
\* A stats that asks for the path as given.
statsKeyAsGiven(path) == path

statsKey(path) == IF isContainerPath(path) THEN containerFileName(path) ELSE path

\* ------------------------------------------------------------------------
\* CloudDataAccessor: one action per backend round trip
\* ------------------------------------------------------------------------

\* A call that takes a step only while no other call is under way.
RunningAlone(p, pc) ==
  /\ proc[p].pc = pc
  /\ \A q \in Procs \ {p} : proc[q].pc \in {"idle", "done"}

Running(p, pc) == proc[p].pc = pc

Set(p, r) == proc' = [proc EXCEPT ![p] = r]

Fail(r, e) == [r EXCEPT !.pc = "done", !.err = e]

Logged(r, cs) == [r EXCEPT !.calls = @ \o cs]

\* The listing the read path of the mapper asks for, and the link it
\* returns: resourceMapper.mapUrlToFilePath(identifier, isMetadata, ct).
mapperLists(identifier, isMetadata, ct) == needsListing(identifier, isMetadata, ct)

\* A mapper that lets a failure of the listing through.
mapperLinkListingThrows(identifier, isMetadata, ct, fault) ==
  LET listed == /\ mapperLists(identifier, isMetadata, ct)
                /\ createBucketOk("mapper", fault)
                /\ fault # "call"
      files == IF listed
               THEN list(store, folderOf(candidatePath(identifier, isMetadata)))
               ELSE <<>>
  IN IF mapperLists(identifier, isMetadata, ct) /\ ~listed
     THEN Failure("BackendError")
     ELSE mapUrlToFilePath(identifier, isMetadata, ct, listed, files)

mapperLink(identifier, isMetadata, ct, fault) ==
  LET listed == /\ mapperLists(identifier, isMetadata, ct)
                /\ createBucketOk("mapper", fault)
                /\ fault # "call"
      files == IF listed
               THEN list(store, folderOf(candidatePath(identifier, isMetadata)))
               ELSE <<>>
  IN mapUrlToFilePath(identifier, isMetadata, ct, listed, files)

mapperCalls(identifier, isMetadata, ct, fault) ==
  IF mapperLists(identifier, isMetadata, ct)
  THEN createBucketCalls("mapper", fault) \o
       (IF createBucketOk("mapper", fault)
        THEN Call("list", folderOf(candidatePath(identifier, isMetadata)), fault # "call")
        ELSE <<>>)
  ELSE <<>>

\* The effect of a mapper call on the bucket and the fault budget.
MapperStep(identifier, isMetadata, ct, fault) ==
  /\ IF mapperLists(identifier, isMetadata, ct)
     THEN faultApplies("mapper", fault, TRUE) /\ createBucket("mapper", fault)
     ELSE fault = "none" /\ UNCHANGED <<bucketCreated, bucketExists>>
  /\ Spend(fault)

Start(p, op, id, ct, md, pc) ==
  /\ proc[p].pc \in {"idle", "done"}
  /\ nops < MaxOps
  /\ nops' = nops + 1
  /\ Set(p, [Idle EXCEPT !.op = op, !.pc = pc, !.id = id, !.ct = ct, !.md = md,
                         !.data = nops + 1, !.pre = store])
  /\ UNCHANGED <<store, bucketExists, bucketCreated, faults>>


\* --- writeDocument ------------------------------------------------------

BeginWriteDocument(p, docs, types, metas) ==
  \E id \in docs, ct \in types, md \in metas :
    Start(p, "writeDocument", id, ct, WithContentType(md, ct), "wd_map")

\* const link = await this.resourceMapper.mapUrlToFilePath(identifier, false,
\* metadata.contentType)
WdMap(p) ==
  /\ Running(p, "wd_map")
  /\ \E fault \in FaultChoices :
       LET r == proc[p]
           ct == contentTypeOf(r.md)
           lk == mapperLink(r.id, FALSE, ct, fault)
           r1 == Logged(r, mapperCalls(r.id, FALSE, ct, fault))
       IN /\ MapperStep(r.id, FALSE, ct, fault)
          /\ Set(p, IF lk.err # None THEN Fail(r1, lk.err)
                    ELSE [r1 EXCEPT !.link = lk, !.pc = "wd_oldmap"])
  /\ UNCHANGED <<store, nops>>

\* A comparison that never sees a stale object.
oldFileNeverDiffers(oldLink, link) == FALSE

\* verifyExistingExtension: if (oldLink.filePath !== link.filePath)
oldFileDiffers(oldLink, link) == oldLink.filePath # link.filePath

\* A writeDocument that goes from the extension check to the data.
afterVerifyWritesData == "wd_data"

\* writeDocument: after verifyExistingExtension comes writeMetadataFile,
\* and only then the write of the data.
afterVerifyExistingExtension == "mf_map"

\* verifyExistingExtension: the key the identifier currently resolves to.
WdOldMap(p) ==
  /\ Running(p, "wd_oldmap")
  /\ \E fault \in FaultChoices :
       LET r == proc[p]
           lk == mapperLink(r.link.identifier, FALSE, None, fault)
           r1 == Logged(r, mapperCalls(r.link.identifier, FALSE, None, fault))
       IN /\ MapperStep(r.link.identifier, FALSE, None, fault)
          /\ Set(p, IF lk.err # None THEN Fail(r1, lk.err)
                    ELSE [r1 EXCEPT !.oldLink = lk, !.after = "wd_data",
                                    !.pc = IF oldFileDiffers(lk, r.link)
                                           THEN "wd_olddel"
                                           ELSE afterVerifyExistingExtension])
  /\ UNCHANGED <<store, nops>>

\* verifyExistingExtension: await this.blobClient.delete(oldLink.filePath)
WdOldDel(p) ==
  /\ Running(p, "wd_olddel")
  /\ \E fault \in FaultChoices \ {"bucket"} :
       LET r == proc[p]
           ok == removeOk(fault)
       IN /\ Spend(fault)
          /\ store' = IF ok THEN Remove(store, r.oldLink.filePath) ELSE store
          /\ Set(p, [Logged(r, Call("remove", r.oldLink.filePath, ok))
                       EXCEPT !.pc = afterVerifyExistingExtension])
  /\ UNCHANGED <<bucketExists, bucketCreated, nops>>

\* --- writeMetadataFile --------------------------------------------------

\* A writeMetadataFile that persists the record as it was given.
strippedQuadsKeepsAll(link, metadata) == metadata

\* The quads left after removing what the storage layer owns.
strippedQuads(link, metadata) ==
  {q \in metadata :
     /\ q \notin {TypeResource, TypeContainer, TypeBasicContainer}
     /\ q[1] # "modified"
     /\ ~(q[1] = "contentType" /\
          (isContainerPath(link.filePath) \/ link.contentType # None))}

\* The sidecar is written when quads remain or the link is a container.
writesSidecar(link, quads) == quads # {} \/ isContainerPath(link.filePath)

\* const metadataLink = await this.resourceMapper.mapUrlToFilePath(
\* link.identifier, true)
MfMap(p) ==
  /\ Running(p, "mf_map")
  /\ \E fault \in FaultChoices :
       LET r == proc[p]
           quads == strippedQuads(r.link, r.md)
           lk == mapperLink(r.link.identifier, TRUE, None, fault)
           r1 == Logged(r, mapperCalls(r.link.identifier, TRUE, None, fault))
       IN /\ MapperStep(r.link.identifier, TRUE, None, fault)
          /\ Set(p, IF lk.err # None THEN Fail(r1, lk.err)
                    ELSE [r1 EXCEPT !.metaLink = lk, !.quads = quads,
                                    !.pc = IF writesSidecar(r.link, quads)
                                           THEN "mf_put" ELSE "mf_del"])
  /\ UNCHANGED <<store, nops>>

\* await this.blobClient.write(metadataLink.filePath, serializedMetadata);
\* wroteMetadata = true
MfPut(p) ==
  /\ Running(p, "mf_put")
  /\ \E fault \in FaultChoices :
       LET r == proc[p]
           key == r.metaLink.filePath
           putOk == fault # "call"
           r1 == Logged(r, createBucketCalls("accessor", fault))
       IN /\ faultApplies("accessor", fault, TRUE)
          /\ createBucket("accessor", fault)
          /\ Spend(fault)
          /\ IF ~createBucketOk("accessor", fault)
             THEN /\ Set(p, Fail(r1, "BackendError"))
                  /\ UNCHANGED store
             ELSE /\ store' = IF putOk
                              THEN Put(store, key, QuadsObject(r.quads, nops))
                              ELSE store
                  /\ Set(p, [Logged(r1, Call("put", key, putOk))
                               EXCEPT !.wrote = TRUE, !.pc = r.after])
  /\ UNCHANGED nops

\* await this.blobClient.delete(metadataLink.filePath); wroteMetadata = false
MfDel(p) ==
  /\ Running(p, "mf_del")
  /\ \E fault \in FaultChoices \ {"bucket"} :
       LET r == proc[p]
           key == r.metaLink.filePath
           ok == removeOk(fault)
       IN /\ Spend(fault)
          /\ store' = IF ok THEN Remove(store, key) ELSE store
          /\ Set(p, [Logged(r, Call("remove", key, ok))
                       EXCEPT !.wrote = FALSE, !.pc = r.after])
  /\ UNCHANGED <<bucketExists, bucketCreated, nops>>

\* try { await this.blobClient.write(link.filePath, data) } catch { delete
\* the sidecar if it was written; throw }
WdData(p) ==
  /\ Running(p, "wd_data")
  /\ \E fault \in FaultChoices :
       LET r == proc[p]
           key == r.link.filePath
           putOk == fault # "call"
           thrown == ~createBucketOk("accessor", fault)
           r1 == Logged(r, createBucketCalls("accessor", fault))
           metaLink == mapperLink(r.id, TRUE, None, "none")
       IN /\ faultApplies("accessor", fault, TRUE)
          /\ createBucket("accessor", fault)
          /\ Spend(fault)
          /\ IF thrown
             THEN IF r.wrote
                  THEN /\ store' = IF removeOk("none")
                                   THEN Remove(store, metaLink.filePath) ELSE store
                       /\ Set(p, Fail(Logged(r1, Call("remove", metaLink.filePath,
                                                       removeOk("none"))),
                                      "BackendError"))
                  ELSE /\ Set(p, Fail(r1, "BackendError"))
                       /\ UNCHANGED store
             ELSE /\ store' = IF putOk
                              THEN Put(store, key, DataObject(r.data, nops))
                              ELSE store
                  /\ Set(p, [Logged(r1, Call("put", key, putOk))
                               EXCEPT !.pc = "done"])
  /\ UNCHANGED nops


\* --- writeContainer -----------------------------------------------------

BeginWriteContainer(p, containers) ==
  \E id \in containers, md \in MetaInputs :
    Start(p, "writeContainer", id, None, md, "wc_map")

\* const link = await this.resourceMapper.mapUrlToFilePath(identifier, false)
WcMap(p) ==
  /\ Running(p, "wc_map")
  /\ \E fault \in FaultChoices :
       LET r == proc[p]
           lk == mapperLink(r.id, FALSE, None, fault)
           r1 == Logged(r, mapperCalls(r.id, FALSE, None, fault))
       IN /\ MapperStep(r.id, FALSE, None, fault)
          /\ Set(p, IF lk.err # None THEN Fail(r1, lk.err)
                    ELSE [r1 EXCEPT !.link = lk, !.pc = "wc_marker"])
  /\ UNCHANGED <<store, nops>>

\* let written = await this.blobClient.writeContainer(link.filePath);
\* if (written) writeMetadataFile(link, metadata)
WcMarker(p) ==
  /\ Running(p, "wc_marker")
  /\ \E fault \in FaultChoices :
       LET r == proc[p]
           key == containerFileName(r.link.filePath)
           putOk == fault # "call"
           written == writeReturns(putOk)
           r1 == Logged(r, createBucketCalls("accessor", fault))
       IN /\ faultApplies("accessor", fault, TRUE)
          /\ createBucket("accessor", fault)
          /\ Spend(fault)
          /\ IF ~createBucketOk("accessor", fault)
             THEN /\ Set(p, Fail(r1, "BackendError"))
                  /\ UNCHANGED store
             ELSE /\ store' = IF putOk
                              THEN Put(store, key,
                                       QuadsObject(containerFileContent(r.link.filePath), nops))
                              ELSE store
                  /\ Set(p, [Logged(r1, Call("put", key, putOk))
                               EXCEPT !.after = "done",
                                      !.pc = IF written THEN "mf_map" ELSE "done"])
  /\ UNCHANGED nops

\* --- deleteResource -----------------------------------------------------

BeginDeleteResource(p, ids) ==
  \E id \in ids :
    Start(p, "deleteResource", id, None, {}, "dr_metamap")

\* const metaLink = await this.resourceMapper.mapUrlToFilePath(identifier, true)
DrMetaMap(p) ==
  /\ Running(p, "dr_metamap")
  /\ \E fault \in FaultChoices :
       LET r == proc[p]
           lk == mapperLink(r.id, TRUE, None, fault)
           r1 == Logged(r, mapperCalls(r.id, TRUE, None, fault))
       IN /\ MapperStep(r.id, TRUE, None, fault)
          /\ Set(p, IF lk.err # None THEN Fail(r1, lk.err)
                    ELSE [r1 EXCEPT !.metaLink = lk, !.pc = "dr_metadel"])
  /\ UNCHANGED <<store, nops>>

\* await this.blobClient.delete(metaLink.filePath)
DrMetaDel(p) ==
  /\ Running(p, "dr_metadel")
  /\ \E fault \in FaultChoices \ {"bucket"} :
       LET r == proc[p]
           key == r.metaLink.filePath
           ok == removeOk(fault)
       IN /\ Spend(fault)
          /\ store' = IF ok THEN Remove(store, key) ELSE store
          /\ Set(p, [Logged(r, Call("remove", key, ok)) EXCEPT !.pc = "dr_map"])
  /\ UNCHANGED <<bucketExists, bucketCreated, nops>>

\* const link = await this.resourceMapper.mapUrlToFilePath(identifier, false)
DrMap(p) ==
  /\ Running(p, "dr_map")
  /\ \E fault \in FaultChoices :
       LET r == proc[p]
           lk == mapperLink(r.id, FALSE, None, fault)
           r1 == Logged(r, mapperCalls(r.id, FALSE, None, fault))
       IN /\ MapperStep(r.id, FALSE, None, fault)
          /\ Set(p, IF lk.err # None THEN Fail(r1, lk.err)
                    ELSE [r1 EXCEPT !.link = lk, !.pc = "dr_del"])
  /\ UNCHANGED <<store, nops>>

\* await this.blobClient.delete(link.filePath), for a document and for a
\* container alike
DrDel(p) ==
  /\ Running(p, "dr_del")
  /\ \E fault \in FaultChoices \ {"bucket"} :
       LET r == proc[p]
           key == r.link.filePath
           ok == removeOk(fault)
       IN /\ Spend(fault)
          /\ store' = IF ok THEN Remove(store, key) ELSE store
          /\ Set(p, [Logged(r, Call("remove", key, ok)) EXCEPT !.pc = "done"])
  /\ UNCHANGED <<bucketExists, bucketCreated, nops>>

\* --- getMetadata --------------------------------------------------------

BeginGetMetadata(p, ids) ==
  \E id \in ids :
    Start(p, "getMetadata", id, None, {}, "gm_map")

\* const link = await this.resourceMapper.mapUrlToFilePath(identifier, false)
GmMap(p) ==
  /\ Running(p, "gm_map")
  /\ \E fault \in FaultChoices :
       LET r == proc[p]
           lk == mapperLink(r.id, FALSE, None, fault)
           r1 == Logged(r, mapperCalls(r.id, FALSE, None, fault))
       IN /\ MapperStep(r.id, FALSE, None, fault)
          /\ Set(p, IF lk.err # None THEN Fail(r1, lk.err)
                    ELSE [r1 EXCEPT !.link = lk, !.pc = "gm_stat"])
  /\ UNCHANGED <<store, nops>>

\* The size statObject reports for an object.
sizeOf(obj) == IF obj.kind = "data" THEN 10 + obj.v ELSE Cardinality(obj.q)

\* CloudBlobClient.stats on a store: found, and the stat when found.
statsFound(s, path) == statsKey(path) \in DOMAIN s

stats(s, path) ==
  [size |-> sizeOf(s[statsKey(path)]), mtime |-> s[statsKey(path)].mtime,
   container |-> isContainerPath(path)]

\* const stats = await this.blobClient.stats(link.filePath)
GmStat(p) ==
  /\ Running(p, "gm_stat")
  /\ \E fault \in FaultChoices :
       LET r == proc[p]
           path == r.link.filePath
           found == statsFound(store, path) /\ fault # "call"
           r1 == Logged(r, createBucketCalls("accessor", fault))
           r2 == Logged(r1, Call("stat", statsKey(path), found))
       IN /\ faultApplies("accessor", fault, TRUE)
          /\ createBucket("accessor", fault)
          /\ Spend(fault)
          /\ Set(p, IF ~createBucketOk("accessor", fault) THEN Fail(r1, "BackendError")
                    ELSE IF ~found THEN Fail(r2, "NotFound")
                    ELSE [r2 EXCEPT !.stat = stats(store, path), !.pc = "gm_rawmap"])
  /\ UNCHANGED <<store, nops>>

\* getRawMetadata: const metadataLink = await
\* this.resourceMapper.mapUrlToFilePath(identifier, true)
GmRawMap(p) ==
  /\ Running(p, "gm_rawmap")
  /\ \E fault \in FaultChoices :
       LET r == proc[p]
           lk == mapperLink(r.link.identifier, TRUE, None, fault)
           r1 == Logged(r, mapperCalls(r.link.identifier, TRUE, None, fault))
       IN /\ MapperStep(r.link.identifier, TRUE, None, fault)
          /\ Set(p, IF lk.err # None THEN Fail(r1, lk.err)
                    ELSE [r1 EXCEPT !.metaLink = lk, !.pc = "gm_read"])
  /\ UNCHANGED <<store, nops>>

\* addResourceMetadata and addPosixMetadata on the sidecar's quads, and the
\* content type of the link when the sidecar holds none (documents).
builtMetadata(raw, link, stat) ==
  LET typed == raw \cup {TypeResource} \cup
               (IF stat.container THEN {TypeContainer, TypeBasicContainer} ELSE {})
      posix == {q \in typed : q[1] # "modified"} \cup
               {<<"modified", stat.mtime>>, <<"mtime", stat.mtime>>} \cup
               (IF stat.container THEN {} ELSE {<<"size", stat.size>>})
  IN Canonical(IF ~stat.container /\ contentTypeOf(posix) = None /\
                    link.contentType # None
                 THEN posix \cup {<<"contentType", link.contentType>>}
                 ELSE posix)

\* getMetadata run to its end on a store whose backend answers every
\* request: the error, or the metadata record.
getMetadata(s, identifier) ==
  LET link == mapUrlToFilePath(identifier, FALSE, None, TRUE,
                               list(s, folderOf(candidatePath(identifier, FALSE))))
      metadataLink == mapUrlToFilePath(identifier, TRUE, None, TRUE,
                                       list(s, folderOf(candidatePath(identifier, TRUE))))
  IN IF link.err # None THEN [err |-> link.err, res |-> {}]
     ELSE IF ~statsFound(s, link.filePath) THEN [err |-> "NotFound", res |-> {}]
     ELSE IF metadataLink.err # None THEN [err |-> metadataLink.err, res |-> {}]
     ELSE IF metadataLink.filePath \notin DOMAIN s
     THEN [err |-> None, res |-> builtMetadata({}, link, stats(s, link.filePath))]
     ELSE IF s[metadataLink.filePath].kind # "quads"
     THEN [err |-> "ParseError", res |-> {}]
     ELSE [err |-> None,
           res |-> builtMetadata(s[metadataLink.filePath].q, link,
                                 stats(s, link.filePath))]

\* getRawMetadata: read and parse the sidecar; a NotFound of the read is an
\* empty sidecar, a parse error is thrown.
GmRead(p) ==
  /\ Running(p, "gm_read")
  /\ \E fault \in FaultChoices :
       LET r == proc[p]
           key == r.metaLink.filePath
           got == key \in DOMAIN store /\ fault # "call"
           r1 == Logged(r, createBucketCalls("accessor", fault))
           r2 == Logged(r1, Call("get", key, got))
       IN /\ faultApplies("accessor", fault, TRUE)
          /\ createBucket("accessor", fault)
          /\ Spend(fault)
          /\ Set(p, IF ~createBucketOk("accessor", fault) THEN Fail(r1, "BackendError")
                    ELSE IF got /\ store[key].kind # "quads" THEN Fail(r2, "ParseError")
                    ELSE [r2 EXCEPT !.res = builtMetadata(IF got THEN store[key].q ELSE {},
                                                          r.link, r.stat),
                                    !.pc = "done"])
  /\ UNCHANGED <<store, nops>>

\* Storage keys mapFilePathToUrl is called with: keys under the root, a
\* key of another store, and a file of the templates.
FileKeys ==
  {<<"root", "/", "a">>, <<"root", "/", "a", "$", ".", "ttl">>,
   <<"root", "/", "a", ".", "meta">>, <<"root", "/", "c", "/">>,
   <<"root", "/", "a", ".", "txt", "$", ".", "ttl">>,
   <<"root", "/", "a", "$", ".", "unknown">>,
   <<"base", "/", "a">>, <<"/", "templates", "/", "a">>}

\* mapFilePathToUrl called directly; a key that ends in "/" is mapped as a
\* container.
MapFile(p, keys) ==
  \E filePath \in keys :
    LET lk == mapFilePathToUrl(filePath, isContainerPath(filePath))
        r == [Idle EXCEPT !.op = "mapFilePathToUrl", !.pc = "done",
                          !.id = filePath, !.pre = store]
    IN /\ proc[p].pc \in {"idle", "done"}
       /\ nops < MaxOps
       /\ nops' = nops + 1
       /\ Set(p, IF lk.err # None THEN Fail(r, lk.err) ELSE [r EXCEPT !.link = lk])
       /\ UNCHANGED <<store, bucketExists, bucketCreated, faults>>

\* --- getData --------------------------------------------------------------

BeginGetData(p, ids) ==
  \E id \in ids :
    Start(p, "getData", id, None, {}, "gd_map")

\* const link = await this.resourceMapper.mapUrlToFilePath(identifier, false)
GdMap(p) ==
  /\ Running(p, "gd_map")
  /\ \E fault \in FaultChoices :
       LET r == proc[p]
           lk == mapperLink(r.id, FALSE, None, fault)
           r1 == Logged(r, mapperCalls(r.id, FALSE, None, fault))
       IN /\ MapperStep(r.id, FALSE, None, fault)
          /\ Set(p, IF lk.err # None THEN Fail(r1, lk.err)
                    ELSE [r1 EXCEPT !.link = lk, !.pc = "gd_read"])
  /\ UNCHANGED <<store, nops>>

\* CloudBlobClient.read: every failure of getObject is a NotFound.
readFound(s, path) == path \in DOMAIN s

\* The stream of an object: the bytes of the write that stored it.
streamOf(obj) == {<<"data", obj.v>>, <<"kind", obj.kind>>}

\* const data = await this.blobClient.read(link.filePath)
GdRead(p) ==
  /\ Running(p, "gd_read")
  /\ \E fault \in FaultChoices :
       LET r == proc[p]
           key == r.link.filePath
           got == readFound(store, key) /\ fault # "call"
           r1 == Logged(r, createBucketCalls("accessor", fault))
           r2 == Logged(r1, Call("get", key, got))
       IN /\ faultApplies("accessor", fault, TRUE)
          /\ createBucket("accessor", fault)
          /\ Spend(fault)
          /\ Set(p, IF ~createBucketOk("accessor", fault) THEN Fail(r1, "BackendError")
                    ELSE IF ~got THEN Fail(r2, "NotFound")
                    ELSE [r2 EXCEPT !.res = streamOf(store[key]), !.pc = "done"])
  /\ UNCHANGED <<store, nops>>

\* --- getChildren ----------------------------------------------------------

BeginGetChildren(p, ids) ==
  \E id \in ids :
    Start(p, "getChildren", id, None, {}, "gc_map")

\* const link = await this.resourceMapper.mapUrlToFilePath(identifier, false)
GcMap(p) ==
  /\ Running(p, "gc_map")
  /\ \E fault \in FaultChoices :
       LET r == proc[p]
           lk == mapperLink(r.id, FALSE, None, fault)
           r1 == Logged(r, mapperCalls(r.id, FALSE, None, fault))
       IN /\ MapperStep(r.id, FALSE, None, fault)
          /\ Set(p, IF lk.err # None THEN Fail(r1, lk.err)
                    ELSE [r1 EXCEPT !.link = lk, !.pc = "gc_list"])
  /\ UNCHANGED <<store, nops>>

\* const dir = await this.blobClient.list(link.filePath)
GcList(p) ==
  /\ Running(p, "gc_list")
  /\ \E fault \in FaultChoices :
       LET r == proc[p]
           listed == fault # "call"
           r1 == Logged(r, createBucketCalls("accessor", fault))
           r2 == Logged(r1, Call("list", r.link.filePath, listed))
           dir == list(store, r.link.filePath)
       IN /\ faultApplies("accessor", fault, TRUE)
          /\ createBucket("accessor", fault)
          /\ Spend(fault)
          /\ Set(p, IF ~createBucketOk("accessor", fault) THEN Fail(r1, "BackendError")
                    ELSE IF ~listed THEN Fail(r2, "BackendError")
                    ELSE [r2 EXCEPT !.entries = dir, !.snap = store,
                                    !.pc = IF dir = <<>> THEN "done" ELSE "gc_child"])
  /\ UNCHANGED <<store, nops>>

\* The record yielded for a listed entry.
childOf(entry, childStats) ==
  LET childLink == mapFilePathToUrl(entry, childStats.container)
  IN [identifier |-> childLink.identifier,
      container |-> childStats.container,
      contentType |-> childLink.contentType]

\* A loop that ends with the failure of the stats of an entry.
skipEntryThrows(r1, r2) == Fail(r1, "NotFound")

\* catch { continue }: the loop goes on with the entries that are left.
skipEntry(r1, r2) == r2

\* One round of the loop over the listed entries: stats of the entry (an
\* entry without stats is skipped), its URL, and the record unless the
\* entry is a metadata file.
GcChild(p) ==
  /\ Running(p, "gc_child")
  /\ \E fault \in FaultChoices \ {"bucket"} :
       LET r == proc[p]
           entry == Head(r.entries)
           found == statsFound(store, entry) /\ fault # "call"
           r1 == Logged(r, Call("stat", statsKey(entry), found))
           rest == Tail(r.entries)
           r2 == [r1 EXCEPT !.entries = rest,
                            !.pc = IF rest = <<>> THEN "done" ELSE "gc_child"]
       IN /\ Spend(fault)
          /\ Set(p, IF ~found THEN skipEntry(r1, r2)
                    ELSE IF mapFilePathToUrl(entry, stats(store, entry).container).err # None
                    THEN Fail(r1, "InternalServerError")
                    ELSE IF mapFilePathToUrl(entry, stats(store, entry).container).isMetadata
                    THEN r2
                    ELSE [r2 EXCEPT !.children =
                                      Canonical(@ \cup {childOf(entry, stats(store, entry))})])
  /\ UNCHANGED <<store, bucketExists, bucketCreated, nops>>

\* --- writeMetadata --------------------------------------------------------

BeginWriteMetadata(p, ids, metas) ==
  \E id \in ids, md \in metas :
    Start(p, "writeMetadata", id, None, md, "wm_map")

\* const metadataLink = await this.resourceMapper.mapUrlToFilePath(identifier,
\* true); await this.writeMetadataFile(metadataLink, metadata)
WmMap(p) ==
  /\ Running(p, "wm_map")
  /\ \E fault \in FaultChoices :
       LET r == proc[p]
           lk == mapperLink(r.id, TRUE, None, fault)
           r1 == Logged(r, mapperCalls(r.id, TRUE, None, fault))
       IN /\ MapperStep(r.id, TRUE, None, fault)
          /\ Set(p, IF lk.err # None THEN Fail(r1, lk.err)
                    ELSE [r1 EXCEPT !.link = lk, !.after = "done", !.pc = "mf_map"])
  /\ UNCHANGED <<store, nops>>

\* --- the mapper, called directly ----------------------------------------

\* The arguments of a direct call: a metadata request carries no content
\* type.
MapArgs == ({FALSE} \X (ContentTypes \cup {None})) \cup {<<TRUE, None>>}

\* CloudExtensionBasedMapper.mapUrlToFilePath(identifier, isMetadata, ct),
\* whose only backend round trip is the listing of the parent folder.
MapUrl(p, ids) ==
  \E id \in ids, args \in MapArgs, fault \in FaultChoices :
    LET isMetadata == args[1]
        ct == args[2]
        lk == mapperLink(id, isMetadata, ct, fault)
        r == [Idle EXCEPT !.op = "mapUrlToFilePath", !.pc = "done", !.id = id,
                          !.ct = ct, !.wrote = isMetadata, !.pre = store,
                          !.calls = mapperCalls(id, isMetadata, ct, fault)]
    IN /\ proc[p].pc \in {"idle", "done"}
       /\ nops < MaxOps
       /\ nops' = nops + 1
       /\ MapperStep(id, isMetadata, ct, fault)
       /\ Set(p, IF lk.err # None THEN Fail(r, lk.err) ELSE [r EXCEPT !.link = lk])
       /\ UNCHANGED store

\* --- CloudBlobClient, called directly ---------------------------------------

\* The two clients: the one the mapper builds and the one the accessor
\* builds.
ClientNames == {"mapper", "accessor"}

\* Keys of a document and of a folder.
ClientDocKeys == {<<"root", "/", "a">>}

ClientFolderKeys == {<<"root", "/", "c", "/">>}

\* A boolean result as it is recorded.
retOf(b) == IF b THEN "true" ELSE "false"

ClientRecord(op, client, path) ==
  [Idle EXCEPT !.op = op, !.pc = "done", !.client = client, !.id = path,
               !.data = nops + 1, !.pre = store]

\* One call of a method of the client, from its start to its return.
ClientCall(p, r) ==
  /\ proc[p].pc \in {"idle", "done"}
  /\ nops < MaxOps
  /\ nops' = nops + 1
  /\ Set(p, r)

\* createBucket()
ClientCreateBucket(p) ==
  \E client \in ClientNames, fault \in FaultChoices \ {"call"} :
    LET r == Logged(ClientRecord("createBucket", client, <<>>),
                    createBucketCalls(client, fault))
    IN /\ faultApplies(client, fault, TRUE)
       /\ createBucket(client, fault)
       /\ Spend(fault)
       /\ ClientCall(p, IF createBucketOk(client, fault) THEN r
                        ELSE Fail(r, "BackendError"))
       /\ UNCHANGED store

\* stats(path)
ClientStats(p) ==
  \E client \in ClientNames, path \in ClientDocKeys \cup ClientFolderKeys,
     fault \in FaultChoices :
    LET found == statsFound(store, path) /\ fault # "call"
        r1 == Logged(ClientRecord("stats", client, path),
                     createBucketCalls(client, fault))
        r2 == Logged(r1, Call("stat", statsKey(path), found))
    IN /\ faultApplies(client, fault, TRUE)
       /\ createBucket(client, fault)
       /\ Spend(fault)
       /\ ClientCall(p, IF ~createBucketOk(client, fault) THEN Fail(r1, "BackendError")
                        ELSE IF ~found THEN Fail(r2, "NotFound")
                        ELSE [r2 EXCEPT !.stat = stats(store, path)])
       /\ UNCHANGED store

\* write(path, data)
ClientWrite(p) ==
  \E client \in ClientNames, path \in ClientDocKeys, fault \in FaultChoices :
    LET putOk == fault # "call"
        r1 == Logged(ClientRecord("write", client, path),
                     createBucketCalls(client, fault))
        r2 == Logged(r1, Call("put", path, putOk))
    IN /\ faultApplies(client, fault, TRUE)
       /\ createBucket(client, fault)
       /\ Spend(fault)
       /\ IF ~createBucketOk(client, fault)
          THEN /\ ClientCall(p, Fail(r1, "BackendError"))
               /\ UNCHANGED store
          ELSE /\ store' = IF putOk THEN Put(store, path, DataObject(nops + 1, nops))
                                    ELSE store
               /\ ClientCall(p, [r2 EXCEPT !.ret = retOf(writeReturns(putOk))])

\* writeContainer(path)
ClientWriteContainer(p) ==
  \E client \in ClientNames, path \in ClientFolderKeys, fault \in FaultChoices :
    LET containerName == containerFileName(path)
        putOk == fault # "call"
        r1 == Logged(ClientRecord("writeContainer", client, path),
                     createBucketCalls(client, fault))
        r2 == Logged(r1, Call("put", containerName, putOk))
    IN /\ faultApplies(client, fault, TRUE)
       /\ createBucket(client, fault)
       /\ Spend(fault)
       /\ IF ~createBucketOk(client, fault)
          THEN /\ ClientCall(p, Fail(r1, "BackendError"))
               /\ UNCHANGED store
          ELSE /\ store' = IF putOk
                           THEN Put(store, containerName,
                                    QuadsObject(containerFileContent(path), nops))
                           ELSE store
               /\ ClientCall(p, [r2 EXCEPT !.ret = retOf(writeReturns(putOk))])

\* delete(path): no createBucket
ClientDelete(p) ==
  \E client \in ClientNames, path \in ClientDocKeys, fault \in FaultChoices \ {"bucket"} :
    LET ok == removeOk(fault)
        r == Logged(ClientRecord("delete", client, path), Call("remove", path, ok))
    IN /\ Spend(fault)
       /\ store' = IF ok THEN Remove(store, path) ELSE store
       /\ ClientCall(p, [r EXCEPT !.ret = retOf(deleteReturns(ok))])
       /\ UNCHANGED <<bucketExists, bucketCreated>>

\* read(path)
ClientRead(p) ==
  \E client \in ClientNames, path \in ClientDocKeys, fault \in FaultChoices :
    LET got == readFound(store, path) /\ fault # "call"
        r1 == Logged(ClientRecord("read", client, path),
                     createBucketCalls(client, fault))
        r2 == Logged(r1, Call("get", path, got))
    IN /\ faultApplies(client, fault, TRUE)
       /\ createBucket(client, fault)
       /\ Spend(fault)
       /\ ClientCall(p, IF ~createBucketOk(client, fault) THEN Fail(r1, "BackendError")
                        ELSE IF ~got THEN Fail(r2, "NotFound")
                        ELSE [r2 EXCEPT !.res = streamOf(store[path])])
       /\ UNCHANGED store

\* list(path)
ClientList(p) ==
  \E client \in ClientNames, path \in {<<"root", "/">>}, fault \in FaultChoices :
    LET listed == fault # "call"
        r1 == Logged(ClientRecord("list", client, path),
                     createBucketCalls(client, fault))
        r2 == Logged(r1, Call("list", path, listed))
    IN /\ faultApplies(client, fault, TRUE)
       /\ createBucket(client, fault)
       /\ Spend(fault)
       /\ ClientCall(p, IF ~createBucketOk(client, fault) THEN Fail(r1, "BackendError")
                        ELSE IF ~listed THEN Fail(r2, "BackendError")
                        ELSE [r2 EXCEPT !.entries = list(store, path)])
       /\ UNCHANGED store

\* ------------------------------------------------------------------------
\* Specifications
\* ------------------------------------------------------------------------

WriteDocumentStep(p) ==
  \/ WdMap(p) \/ WdOldMap(p) \/ WdOldDel(p)
  \/ MfMap(p) \/ MfPut(p) \/ MfDel(p) \/ WdData(p)

Step(p) ==
  \/ WdMap(p) \/ WdOldMap(p) \/ WdOldDel(p)
  \/ MfMap(p) \/ MfPut(p) \/ MfDel(p) \/ WdData(p)
  \/ WcMap(p) \/ WcMarker(p)
  \/ DrMetaMap(p) \/ DrMetaDel(p) \/ DrMap(p) \/ DrDel(p)
  \/ GmMap(p) \/ GmStat(p) \/ GmRawMap(p) \/ GmRead(p)

Begin(p) ==
  \/ BeginWriteDocument(p, OpDocs, WriteTypes, MetaInputs)
  \/ BeginWriteContainer(p, OpContainers)
  \/ BeginDeleteResource(p, OpDocs \cup OpContainers)
  \/ BeginGetMetadata(p, OpDocs \cup OpContainers)

\* The same operations on the identifiers and types of the failure cases.
BeginFault(p) ==
  \/ BeginWriteDocument(p, FaultDocs, FaultTypes, MetaInputs)
  \/ BeginWriteContainer(p, OpContainers)
  \/ BeginDeleteResource(p, FaultDocs \cup OpContainers)
  \/ BeginGetMetadata(p, FaultDocs \cup OpContainers)
  \/ MapUrl(p, FaultDocs)

\* One request at a time against a backend that answers every request.
Next == Begin(1) \/ Step(1)

Spec == Init /\ [][Next]_vars

\* One request at a time against a backend of which up to MaxFaults
\* requests fail.
NextFault == BeginFault(1) \/ Step(1)

\* The mapper called directly, on a store filled by document writes.
NextMap ==
  \/ MapUrl(1, MapIds)
  \/ MapFile(1, FileKeys)
  \/ BeginWriteDocument(1, MapDocs, MapTypes, MetaInputs)
  \/ WriteDocumentStep(1)

SpecMap == Init /\ [][NextMap]_vars

\* Documents, sidecars and containers written, read and deleted one request
\* at a time against a backend that answers every request.
DataTypes == {None, TextTurtle}

BeginData(p) ==
  \/ BeginWriteDocument(p, OpDocs, DataTypes, RewriteMetas)
  \/ BeginWriteContainer(p, OpContainers)
  \/ BeginWriteMetadata(p, OpDocs \cup OpContainers, RewriteMetas)
  \/ BeginDeleteResource(p, OpDocs \cup OpContainers)
  \/ BeginGetData(p, OpDocs \cup OpContainers)

DataStep(p) ==
  \/ WdMap(p) \/ WdOldMap(p) \/ WdOldDel(p)
  \/ MfMap(p) \/ MfPut(p) \/ MfDel(p) \/ WdData(p)
  \/ WcMap(p) \/ WcMarker(p) \/ WmMap(p)
  \/ DrMetaMap(p) \/ DrMetaDel(p) \/ DrMap(p) \/ DrDel(p)
  \/ GdMap(p) \/ GdRead(p)

NextData == BeginData(1) \/ DataStep(1)

SpecData == Init /\ [][NextData]_vars

\* Containers filled with documents and sub-containers, and listed.
BeginChildren(p) ==
  \/ BeginWriteContainer(p, ChildContainers)
  \/ BeginWriteDocument(p, ChildDocs, {TextTurtle}, RewriteMetas)
  \/ BeginGetChildren(p, ChildContainers)

ChildrenStep(p) ==
  \/ WdMap(p) \/ WdOldMap(p) \/ WdOldDel(p)
  \/ MfMap(p) \/ MfPut(p) \/ MfDel(p) \/ WdData(p)
  \/ WcMap(p) \/ WcMarker(p)
  \/ GcMap(p) \/ GcList(p) \/ GcChild(p)

NextChildren == BeginChildren(1) \/ ChildrenStep(1)

SpecChildren == Init /\ [][NextChildren]_vars

\* Document writes that all go to the identifier of the first one.
RewriteDocument(p) ==
  BeginWriteDocument(p, IF nops = 0 THEN RewriteDocs ELSE {proc[p].id}, WriteTypes,
                     RewriteMetas)

NextRewrite == RewriteDocument(1) \/ WriteDocumentStep(1)

SpecRewrite == Init /\ [][NextRewrite]_vars

SpecFault == InitFault /\ [][NextFault]_vars

\* A document and a container whose identifiers differ in the trailing
\* separator alone, written and asked for their metadata.
BeginKind(p) ==
  \/ BeginWriteDocument(p, OpDocs, DataTypes, RewriteMetas)
  \/ BeginWriteContainer(p, {ContainerA})
  \/ BeginGetMetadata(p, {DocA, ContainerA})

KindStep(p) ==
  \/ WdMap(p) \/ WdOldMap(p) \/ WdOldDel(p)
  \/ MfMap(p) \/ MfPut(p) \/ MfDel(p) \/ WdData(p)
  \/ WcMap(p) \/ WcMarker(p)
  \/ GmMap(p) \/ GmStat(p) \/ GmRawMap(p) \/ GmRead(p)

NextKind == BeginKind(1) \/ KindStep(1)

SpecKind == Init /\ [][NextKind]_vars

\* Valid and invalid identifiers given to the mapper and to getData,
\* getMetadata and writeDocument.
BeginInvalid(p) ==
  \/ MapUrl(p, InvalidIds \cup {DocA})
  \/ BeginGetData(p, InvalidIds \cup {DocA})
  \/ BeginGetMetadata(p, InvalidIds \cup {DocA})
  \/ BeginWriteDocument(p, InvalidIds \cup {DocA}, DataTypes, RewriteMetas)

InvalidStep(p) ==
  \/ WdMap(p) \/ WdOldMap(p) \/ WdOldDel(p)
  \/ MfMap(p) \/ MfPut(p) \/ MfDel(p) \/ WdData(p)
  \/ GmMap(p) \/ GmStat(p) \/ GmRawMap(p) \/ GmRead(p)
  \/ GdMap(p) \/ GdRead(p)

NextInvalid == BeginInvalid(1) \/ InvalidStep(1)

SpecInvalid == Init /\ [][NextInvalid]_vars

\* A container that holds two documents, after the writes that stored
\* them.
InitListing ==
  /\ store = [k \in {candidatePath(DocCA, FALSE), candidatePath(DocCC, FALSE)} |->
               DataObject(0, 0)]
  /\ bucketExists = TRUE
  /\ bucketCreated = [c \in {"mapper", "accessor"} |-> TRUE]
  /\ proc = [p \in Procs |-> Idle]
  /\ nops = 0
  /\ faults = 0

\* The request that enumerates the container.
ListingReader(p) ==
  \/ BeginGetChildren(p, {ContainerC})
  \/ GcMap(p) \/ GcList(p) \/ GcChild(p)

\* The request that writes and deletes documents of the container while
\* the other enumerates it.
ListingWriter(p) ==
  \/ BeginWriteDocument(p, {DocCA, DocCABang}, DataTypes, {{Likes}})
  \/ BeginDeleteResource(p, {DocCA, DocCC})
  \/ WdMap(p) \/ WdOldMap(p) \/ WdOldDel(p)
  \/ MfMap(p) \/ MfPut(p) \/ WdData(p)
  \/ DrMetaMap(p) \/ DrMetaDel(p) \/ DrMap(p) \/ DrDel(p)

\* Two requests whose backend round trips interleave.
NextListing == ListingReader(1) \/ ListingWriter(2)

SpecListing == InitListing /\ [][NextListing]_vars

\* The record each of the two writers of one document hands in: the stored
\* sidecar tells which of them wrote it.
RaceMeta(p) == IF p = 1 THEN {Likes} ELSE {LikesPears}

\* The positions of a writeDocument that has quads to store.
RacePcs == {"wd_map", "wd_oldmap", "wd_olddel", "mf_map", "mf_put", "wd_data"}

\* A writeDocument on the one identifier both requests write to.
RaceWriter(p) ==
  \/ BeginWriteDocument(p, {DocA}, MapTypes, {RaceMeta(p)})
  \/ WdMap(p) \/ WdOldMap(p) \/ WdOldDel(p)
  \/ MfMap(p) \/ MfPut(p) \/ WdData(p)

\* Two requests on the same accessor: their backend round trips interleave
\* at every await.
NextRace == \E p \in Procs : RaceWriter(p)

SpecRace == Init /\ [][NextRace]_vars

\* Writes and deletes on an identifier that ends in the reserved marker and
\* on one that does not.
ReservedDocs == {DocA, DocReserved}

BeginReserved(p) ==
  \/ BeginWriteDocument(p, ReservedDocs, DataTypes, RewriteMetas)
  \/ BeginWriteMetadata(p, ReservedDocs, RewriteMetas)
  \/ BeginDeleteResource(p, ReservedDocs)

ReservedStep(p) ==
  \/ WdMap(p) \/ WdOldMap(p) \/ WdOldDel(p)
  \/ MfMap(p) \/ MfPut(p) \/ MfDel(p) \/ WdData(p)
  \/ WmMap(p)
  \/ DrMetaMap(p) \/ DrMetaDel(p) \/ DrMap(p) \/ DrDel(p)

NextReserved == BeginReserved(1) \/ ReservedStep(1)

SpecReserved == Init /\ [][NextReserved]_vars

\* A container with a document and a sub-container, after the writes that
\* stored them: writeContainer(base/c/), writeDocument(base/c/a, text/turtle)
\* and writeContainer(base/c/c/), each with an empty record.
InitTree ==
  /\ store = [k \in {containerFileName(candidatePath(ContainerC, FALSE)),
                      containerFileName(candidatePath(ContainerCC, FALSE)),
                      candidatePath(DocCA, FALSE) \o <<"$", ".", "ttl">>} |->
               IF isMetadataPath(k) THEN QuadsObject({}, 0) ELSE DataObject(0, 0)]
  /\ bucketExists = TRUE
  /\ bucketCreated = [c \in {"mapper", "accessor"} |-> TRUE]
  /\ proc = [p \in Procs |-> Idle]
  /\ nops = 0
  /\ faults = 0

BeginTree(p) ==
  \/ BeginDeleteResource(p, ChildContainers)
  \/ BeginGetMetadata(p, ChildContainers \cup {DocCA})
  \/ BeginGetData(p, {DocCA})

TreeStep(p) ==
  \/ DrMetaMap(p) \/ DrMetaDel(p) \/ DrMap(p) \/ DrDel(p)
  \/ GmMap(p) \/ GmStat(p) \/ GmRawMap(p) \/ GmRead(p)
  \/ GdMap(p) \/ GdRead(p)

NextTree == BeginTree(1) \/ TreeStep(1)

SpecTree == InitTree /\ [][NextTree]_vars

\* --- createBucket, one step per request and per resumption -------------

\* Keys the racing writes put.
ProvisionKeys == {<<"root", "/", "a">>, <<"root", "/", "c">>}

\* What makeBucket answers for a bucket that exists already: the backend
\* either accepts the request or refuses it (BucketAlreadyOwnedByYou).
MakeExistingAnswers == {TRUE, FALSE}

\* write(path, data) is entered: await this.createBucket() returns at once
\* when the flag is set, and otherwise sends bucketExists.
PvBegin(p) ==
  \E path \in ProvisionKeys :
    /\ proc[p].pc \in {"idle", "done"}
    /\ nops < MaxOps
    /\ nops' = nops + 1
    /\ Set(p, [Idle EXCEPT !.op = "write", !.client = "accessor", !.id = path,
                           !.data = nops + 1, !.pre = store,
                           !.pc = IF bucketCreated["accessor"] THEN "pv_put"
                                  ELSE "pv_exists"])
    /\ UNCHANGED <<store, bucketExists, bucketCreated, faults>>

\* The backend answers bucketExists.
PvExists(p) ==
  /\ Running(p, "pv_exists")
  /\ Set(p, [Logged(proc[p], Call("bucketExists", <<>>, bucketExists))
               EXCEPT !.ret = retOf(bucketExists), !.pc = "pv_flag"])
  /\ UNCHANGED <<store, bucketExists, bucketCreated, nops, faults>>

\* this.bucketCreated = await this.client.bucketExists(this.bucket); when
\* the answer is false makeBucket is sent.
PvFlag(p) ==
  /\ Running(p, "pv_flag")
  /\ bucketCreated' = [bucketCreated EXCEPT !["accessor"] = (proc[p].ret = "true")]
  /\ Set(p, [proc[p] EXCEPT !.pc = IF proc[p].ret = "true" THEN "pv_put"
                                    ELSE "pv_make"])
  /\ UNCHANGED <<store, bucketExists, nops, faults>>

\* The backend answers makeBucket.
PvMake(p) ==
  /\ Running(p, "pv_make")
  /\ \E ok \in (IF bucketExists THEN MakeExistingAnswers ELSE {TRUE}) :
       /\ bucketExists' = TRUE
       /\ Set(p, [Logged(proc[p], Call("makeBucket", <<>>, ok))
                    EXCEPT !.ret = retOf(ok), !.pc = "pv_made"])
  /\ UNCHANGED <<store, bucketCreated, nops, faults>>

\* await this.client.makeBucket(this.bucket); this.bucketCreated = true;
\* catch (e) { throw e }: a refused makeBucket leaves createBucket, and with
\* it write, by the exception.
PvMade(p) ==
  /\ Running(p, "pv_made")
  /\ IF proc[p].ret = "true"
     THEN /\ bucketCreated' = [bucketCreated EXCEPT !["accessor"] = TRUE]
          /\ Set(p, [proc[p] EXCEPT !.pc = "pv_put"])
     ELSE /\ Set(p, Fail(proc[p], "BackendError"))
          /\ UNCHANGED bucketCreated
  /\ UNCHANGED <<store, bucketExists, nops, faults>>

\* try { await this.client.putObject(...); return true }
PvPut(p) ==
  /\ Running(p, "pv_put")
  /\ store' = Put(store, proc[p].id, DataObject(proc[p].data, nops))
  /\ Set(p, [Logged(proc[p], Call("put", proc[p].id, TRUE))
               EXCEPT !.ret = retOf(writeReturns(TRUE)), !.pc = "done"])
  /\ UNCHANGED <<bucketExists, bucketCreated, nops, faults>>

ProvisionStep(p) ==
  \/ PvBegin(p) \/ PvExists(p) \/ PvFlag(p)
  \/ PvMake(p) \/ PvMade(p) \/ PvPut(p)

\* Two writes through the one client of the accessor.
NextProvision == \E p \in Procs : ProvisionStep(p)

SpecProvision == Init /\ [][NextProvision]_vars

\* The methods of the two clients called one after the other, against a
\* backend of which up to MaxFaults requests fail.
NextClient ==
  \/ ClientCreateBucket(1)
  \/ ClientStats(1)
  \/ ClientWrite(1)
  \/ ClientWriteContainer(1)
  \/ ClientDelete(1)
  \/ ClientRead(1)
  \/ ClientList(1)

SpecClient == InitFault /\ [][NextClient]_vars

\* --- Properties -----------------------------------------------------------

Done(p, op) == proc[p].op = op /\ proc[p].pc = "done"

LastCall(r) == r.calls[Len(r.calls)]

\* The requests of an operation that change an object, in issue order.
ObjectCalls(r) == SelectSeq(r.calls, LAMBDA c : c.call \in {"put", "remove"})

\* C1: when the put of the data fails, writeDocument deletes the sidecar it
\* wrote during the call and ends with the failure: it never returns
\* normally after a failed data put, and no sidecar of the call remains.
C1_FailedDataWriteRollsBack ==
  \A p \in Procs :
    LET r == proc[p]
    IN (/\ Done(p, "writeDocument")
        /\ r.calls # <<>>
        /\ LastCall(r).call = "put"
        /\ ~LastCall(r).ok)
       => /\ r.err # None
          /\ r.wrote => r.metaLink.filePath \notin DOMAIN store

\* C2: a writeContainer on a container whose marker already exists leaves
\* the attributes stored in the sidecar as they were.
C2_SecondWriteContainerKeepsSidecar ==
  \A p \in Procs :
    LET r == proc[p]
        key == containerFileName(r.link.filePath)
    IN (/\ Done(p, "writeContainer")
        /\ r.err = None
        /\ key \in DOMAIN r.pre)
       => /\ key \in DOMAIN store
          /\ store[key].q = r.pre[key].q

\* The keys that hold the bytes of a document: its candidate key, or the
\* candidate key followed by "$." and one extension.
dataKeysOf(s, identifier) ==
  LET cand == candidatePath(identifier, FALSE)
  IN {k \in DOMAIN s :
        \/ k = cand
        \/ /\ Len(k) = Len(cand) + 3
           /\ StartsWith(k, cand \o <<"$", ".">>)
           /\ k[Len(k)] \in WordToks}

C4_ContainerExistsIffMarker ==
  /\ \A c \in OpContainers :
       LET path == candidatePath(c, FALSE)
           marker == path \o metadataSuffix
           md == getMetadata(store, c)
       IN /\ statsFound(store, path) <=> marker \in DOMAIN store
          /\ marker \in DOMAIN store =>
               /\ stats(store, path).container
               /\ md.err = None
               /\ TypeContainer \in md.res
          /\ marker \notin DOMAIN store => md.err = "NotFound"
  /\ \A p \in Procs :
       LET r == proc[p]
           marker == candidatePath(r.id, FALSE) \o metadataSuffix
       IN /\ (Done(p, "getMetadata") /\ r.id \in OpContainers) =>
               /\ r.err = None <=> marker \in DOMAIN store
               /\ r.err = None => TypeContainer \in r.res
               /\ r.err # None => r.err = "NotFound"
          /\ (Done(p, "writeContainer") /\ r.err = None) =>
               marker \in DOMAIN store
          /\ (Done(p, "deleteResource") /\ r.id \in OpContainers /\ r.err = None) =>
               marker \notin DOMAIN store

\* getMetadata of a stored container has succeeded and reports a container.
C4_Witness ==
  \E p \in Procs :
    /\ Done(p, "getMetadata")
    /\ proc[p].id \in OpContainers
    /\ proc[p].err = None
    /\ TypeContainer \in proc[p].res
    /\ candidatePath(proc[p].id, FALSE) \o metadataSuffix \in DOMAIN store

\* The write or the delete of the sidecar of the document being written.
SidecarStep(r, c) ==
  c.call \in {"put", "remove"} /\ c.key = r.metaLink.filePath

\* C5: within one writeDocument the sidecar step (write or delete of the
\* sidecar) is finished before the put of the data is issued, and the
\* sidecar is deleted after its write only when the write of the data has
\* failed in the same call.
C5_SidecarBeforeData ==
  \A p \in Procs :
    LET r == proc[p]
        oc == ObjectCalls(r)
        n == Len(oc)
    IN r.op = "writeDocument" =>
         /\ r.pc \in {"wd_map", "wd_oldmap", "wd_olddel", "mf_map", "mf_put", "mf_del"}
              => \A i \in 1..n : oc[i].call # "put"
         /\ r.pc = "wd_data" => n >= 1 /\ SidecarStep(r, oc[n])
         /\ (r.pc = "done" /\ r.err = None) =>
              /\ n >= 2
              /\ oc[n].call = "put" /\ oc[n].key = r.link.filePath
              /\ SidecarStep(r, oc[n - 1])
         /\ \A i, j \in 1..n :
              (i < j /\ oc[i].call = "put" /\ oc[i].key = r.metaLink.filePath
                     /\ oc[j].call = "remove")
              => r.pc = "done" /\ r.err = "BackendError"

\* A document write has stored the sidecar and then the data.
C5_Witness ==
  \E p \in Procs :
    LET r == proc[p]
        oc == ObjectCalls(r)
        n == Len(oc)
    IN /\ Done(p, "writeDocument") /\ r.err = None /\ r.wrote
       /\ n >= 2
       /\ oc[n - 1] = [call |-> "put", key |-> r.metaLink.filePath, ok |-> TRUE]
       /\ oc[n] = [call |-> "put", key |-> r.link.filePath, ok |-> TRUE]
       /\ r.metaLink.filePath # r.link.filePath

\* A direct call of the mapper has returned a link.
Mapped(p) == Done(p, "mapUrlToFilePath") /\ proc[p].err = None

\* The characters that end an extension as the reverse mapping reads it,
\* and those that end one as the reserved-suffix check reads it.
extensionEnds == {".", "/"}

wordEnds == {"!", "$", ".", "/"}

\* The length of a trailing "$." + extension of a path (the extension being
\* a run without the given characters), 0 if the path does not end in one.
dollarSuffixLen(path, ends) ==
  LET n == TailRun(path, ends)
  IN IF /\ n > 0
        /\ n + 2 <= Len(path)
        /\ path[Len(path) - n] = "."
        /\ path[Len(path) - n - 1] = "$"
     THEN n + 2 ELSE 0

\* The extension that comes back as the content type it was chosen for.
extensionMapsBack(contentType) ==
  getContentTypeFromPath(<<".">> \o extensionFor(contentType)) = contentType

\* The key of a write mapped back gives the identifier, and the content
\* type or, when the type has no extension in the table, the default type.
roundTrips(r) ==
  LET back == mapFilePathToUrl(r.link.filePath, FALSE)
  IN /\ back.err = None
     /\ back.identifier = r.id
     /\ back.contentType = IF extensionFor(r.ct) = <<>> THEN OctetStream ELSE r.ct

\* C6 as stated: for every accepted document identifier and content type,
\* mapping the key of the write path back yields the identifier and the
\* content type (the default type when the type has no extension).
C6_RoundTripEveryInput ==
  \A p \in Procs :
    LET r == proc[p]
    IN (Mapped(p) /\ ~r.wrote /\ r.ct # None /\ ~isContainerIdentifier(r.id))
       => roundTrips(r)

\* C6: the round trip of identifier and content type holds for every
\* accepted document identifier that does not end in "$." + extension and
\* whose key does not end in ".meta", and every content type that the
\* identifier's own extension implies, that has no extension in the table,
\* or whose extension maps back to it.
C6_RoundTrip ==
  \A p \in Procs :
    LET r == proc[p]
    IN (/\ Mapped(p) /\ ~r.wrote /\ r.ct # None /\ ~isContainerIdentifier(r.id)
        /\ dollarSuffixLen(r.id, extensionEnds) = 0
        /\ ~EndsWith(r.link.filePath, <<".", "meta">>)
        /\ \/ r.ct = getContentTypeFromPath(candidatePath(r.id, FALSE))
           \/ extensionFor(r.ct) = <<>>
           \/ extensionMapsBack(r.ct))
       => roundTrips(r)

\* An identifier with an extension, mapped with another type, comes back.
C6_Witness ==
  \E p \in Procs :
    /\ Mapped(p)
    /\ proc[p].id = DocATxt
    /\ proc[p].ct = TextTurtle
    /\ proc[p].link.filePath = <<"root", "/", "a", ".", "txt", "$", ".", "ttl">>
    /\ roundTrips(proc[p])

\* The number of places of a key where "$." and an extension start.
markerCount(key) ==
  Cardinality({i \in 1..(Len(key) - 2) :
                 key[i] = "$" /\ key[i + 1] = "." /\ key[i + 2] \in WordToks})

C8_WrittenTypeIsReported ==
  \A p \in Procs :
    LET r == proc[p]
        md == getMetadata(store, r.id)
    IN (Done(p, "writeDocument") /\ r.err = None /\ r.ct # None)
       => md.err = None /\ contentTypeOf(md.res) = r.ct

\* The extension the tables give for a content type.
tableExtension(contentType) ==
  IF MimeExtension(contentType) # <<>> THEN MimeExtension(contentType)
  ELSE customExtensions(contentType)

\* C9: on the write path the key is the candidate when the candidate's own
\* extension implies the content type, else the candidate followed by "$."
\* and the table's extension for the type, else the candidate followed by
\* "$.unknown" with no content type in the link.
C9_WritePathKey ==
  \A p \in Procs :
    LET r == proc[p]
        cand == rootFilepath \o SliceFrom(r.id, Len(baseRequestURI))
        e == tableExtension(r.ct)
    IN (Mapped(p) /\ ~r.wrote /\ r.ct # None /\ ~isContainerIdentifier(r.id))
       => IF getContentTypeFromPath(cand) = r.ct
          THEN r.link.filePath = cand /\ r.link.contentType = r.ct
          ELSE IF e # <<>>
          THEN r.link.filePath = cand \o <<"$", ".">> \o e /\ r.link.contentType = r.ct
          ELSE /\ r.link.filePath = cand \o <<"$", ".", "unknown">>
               /\ r.link.contentType = None

\* A type without an extension in the table got the "$.unknown" key.
C9_Witness ==
  \E p \in Procs :
    /\ Mapped(p)
    /\ proc[p].id = DocA
    /\ proc[p].ct = UnknownType
    /\ proc[p].link.filePath = <<"root", "/", "a", "$", ".", "unknown">>
    /\ proc[p].link.contentType = None

\* C10: without a content type the mapper adopts a listed entry only if it
\* is the candidate or the candidate followed by "$." and one extension,
\* and returns the candidate when the listing has no such entry.
C10_ReadPathAdoptsOnlyOwnKeys ==
  \A p \in Procs :
    LET r == proc[p]
        cand == candidatePath(r.id, r.wrote)
        own(k) == \/ k = cand
                  \/ /\ Len(k) = Len(cand) + 3
                     /\ StartsWith(k, cand \o <<"$", ".">>)
                     /\ k[Len(k)] \in WordToks
        files == list(r.pre, folderOf(cand))
    IN (Mapped(p) /\ r.ct = None /\ ~isContainerIdentifier(r.id))
       => /\ r.link.filePath # cand =>
               /\ own(r.link.filePath)
               /\ \E i \in 1..Len(files) : files[i] = r.link.filePath
          /\ (\A i \in 1..Len(files) : ~own(files[i])) => r.link.filePath = cand

\* C11 as stated: mapUrlToFilePath rejects with NotImplemented every
\* document identifier that ends in "$." followed by an extension, whatever
\* the request.
C11_RejectsEveryDollarExtension ==
  \A p \in Procs :
    LET r == proc[p]
    IN (/\ Done(p, "mapUrlToFilePath")
        /\ ~isContainerIdentifier(r.id)
        /\ dollarSuffixLen(r.id, extensionEnds) > 0)
       => r.err = "NotImplemented"

\* C11: for a read and for a write of the document itself, mapUrlToFilePath
\* rejects with NotImplemented every identifier that ends in "$." followed
\* by word characters, so a returned key that ends so is never the
\* candidate of its identifier.
C11_RejectsDollarWordExtension ==
  \A p \in Procs :
    LET r == proc[p]
    IN /\ (/\ Done(p, "mapUrlToFilePath")
           /\ ~r.wrote
           /\ ~isContainerIdentifier(r.id)
           /\ dollarSuffixLen(r.id, wordEnds) > 0)
          => r.err = "NotImplemented"
       /\ (Mapped(p) /\ ~r.wrote /\ dollarSuffixLen(r.link.filePath, wordEnds) > 0)
          => r.link.filePath # rootFilepath \o SliceFrom(r.id, Len(baseRequestURI))

\* A read of an identifier with the reserved suffix has been rejected.
C11_Witness ==
  \E p \in Procs :
    /\ Done(p, "mapUrlToFilePath")
    /\ proc[p].id = DocReserved
    /\ proc[p].ct = None
    /\ ~proc[p].wrote
    /\ proc[p].err = "NotImplemented"

\* C12: getData fails with NotFound whenever no data object is stored for
\* the identifier (none at its candidate key, none at the candidate followed
\* by "$." and an extension), also for a container and for a mere prefix of
\* stored keys; a stream is returned only from a data object of exactly
\* that identifier.
C12_GetDataOnlyOwnDocument ==
  \A p \in Procs :
    LET r == proc[p]
    IN Done(p, "getData") =>
         /\ dataKeysOf(store, r.id) = {} => r.err = "NotFound"
         /\ r.err = None => r.link.filePath \in dataKeysOf(store, r.id)

\* The sidecar of the call has been put.
sidecarPut(r) ==
  \E i \in 1..Len(r.calls) :
    r.calls[i].call = "put" /\ r.calls[i].key = r.metaLink.filePath /\ r.calls[i].ok

\* C13: a write of a document or of its metadata puts the sidecar exactly
\* when attributes remain after the storage-owned ones are stripped; when
\* none remain no object is left at the sidecar key of the document.
C13_SidecarIffAttributesRemain ==
  \A p \in Procs :
    LET r == proc[p]
        sidecar == candidatePath(r.id, FALSE) \o metadataSuffix
    IN (/\ r.pc = "done"
        /\ r.op \in {"writeDocument", "writeMetadata"}
        /\ r.err = None
        /\ ~isContainerIdentifier(r.id))
       => /\ sidecarPut(r) <=> r.quads # {}
          /\ r.quads # {} => r.metaLink.filePath = sidecar /\ sidecar \in DOMAIN store
          /\ r.quads = {} => sidecar \notin DOMAIN store

\* The identifier of the container a resource lies in directly.
parentOf(identifier) ==
  LET body == IF isContainerIdentifier(identifier)
              THEN DropLast(identifier, 1) ELSE identifier
  IN DropLast(body, TailRun(body, {"/"}))

\* The immediate members of a container: the documents stored directly
\* under it and its immediate sub-containers.
membersOf(s, container) ==
  {d \in ChildDocs : parentOf(d) = container /\ dataKeysOf(s, d) # {}} \cup
  {c \in ChildContainers :
     /\ parentOf(c) = container
     /\ containerFileName(candidatePath(c, FALSE)) \in DOMAIN s}

\* C14: getChildren yields exactly the immediate members of the container:
\* one record per document stored directly under it and one per immediate
\* sub-container, tagged as container; no sidecar, not the container's own
\* marker, nothing nested deeper.
C14_ChildrenAreImmediateMembers ==
  \A p \in Procs :
    LET r == proc[p]
    IN (Done(p, "getChildren") /\ r.err = None)
       => /\ {ch.identifier : ch \in r.children} = membersOf(store, r.id)
          /\ \A ch \in r.children :
               ch.container <=> isContainerIdentifier(ch.identifier)

\* The resource is stored: a document has a data object, a container its
\* marker.
existsIn(s, identifier) ==
  IF isContainerIdentifier(identifier)
  THEN containerFileName(candidatePath(identifier, FALSE)) \in DOMAIN s
  ELSE dataKeysOf(s, identifier) # {}

\* C15: deleteResource of an existing document or container returns with
\* neither its sidecar nor its primary object (data object or marker)
\* stored; the sidecar is deleted before the primary object, an absent
\* sidecar is no failure, and NotFound is the result only for an identifier
\* that was neither a container nor a document.
C15_DeleteRemovesSidecarAndPrimary ==
  \A p \in Procs :
    LET r == proc[p]
        oc == ObjectCalls(r)
        sidecar == candidatePath(r.id, FALSE) \o metadataSuffix
    IN Done(p, "deleteResource") =>
         /\ existsIn(r.pre, r.id) =>
              /\ r.err = None
              /\ ~existsIn(store, r.id)
              /\ sidecar \notin DOMAIN store
         /\ r.err = None =>
              /\ Len(oc) = 2
              /\ oc[1].call = "remove" /\ oc[1].key = r.metaLink.filePath
              /\ oc[2].call = "remove" /\ oc[2].key = r.link.filePath
         /\ r.err = "NotFound" => ~existsIn(r.pre, r.id)

\* The key the write path stores the bytes of a document at.
primaryKey(identifier, contentType) ==
  mapUrlToFilePath(identifier, FALSE, contentType, FALSE, <<>>)

\* C16 as stated: for every identifier and content type, the key of a
\* metadata request is the key the bytes are stored at, with its "$." +
\* extension suffix, followed by ".meta", and the link is a metadata link.
C16_SidecarFollowsPrimaryKey ==
  \A p \in Procs :
    LET r == proc[p]
    IN (Mapped(p) /\ r.wrote /\ ~isContainerIdentifier(r.id))
       => \A t \in ContentTypes :
            primaryKey(r.id, t).err = None =>
              /\ r.link.filePath = primaryKey(r.id, t).filePath \o metadataSuffix
              /\ r.link.isMetadata

\* C16: the key of a metadata request for a document is the candidate key
\* of its identifier followed by ".meta", without the "$." + extension
\* suffix of the key the bytes are stored at, and the link is a metadata
\* link of type text/turtle; it follows the key of the bytes only for a
\* content type the identifier's own extension implies. When that sidecar
\* is not stored and a listed key begins with it, the listed key is
\* returned.
C16_SidecarFollowsCandidate ==
  \A p \in Procs :
    LET r == proc[p]
        sidecar == rootFilepath \o SliceFrom(r.id, Len(baseRequestURI)) \o <<".", "meta">>
        files == list(r.pre, folderOf(sidecar))
        own == \/ sidecar \in DOMAIN r.pre
               \/ \A i \in 1..Len(files) : ~StartsWith(files[i], sidecar)
    IN (Mapped(p) /\ r.wrote /\ ~isContainerIdentifier(r.id))
       => IF own
          THEN /\ r.link.filePath = sidecar
               /\ r.link.isMetadata
               /\ r.link.contentType = TextTurtle
               /\ \A t \in ContentTypes :
                    (primaryKey(r.id, t).err = None /\
                     t = getContentTypeFromPath(DropLast(sidecar, 2)))
                    => r.link.filePath = primaryKey(r.id, t).filePath \o <<".", "meta">>
          ELSE /\ StartsWith(r.link.filePath, sidecar)
               /\ r.link.filePath \in DOMAIN r.pre

\* A metadata request for a document whose bytes are stored under a key
\* with a suffix has been mapped to the candidate followed by ".meta".
C16_Witness ==
  \E p \in Procs :
    /\ Mapped(p) /\ proc[p].wrote
    /\ proc[p].id = DocA
    /\ <<"root", "/", "a", "$", ".", "ttl">> \in DOMAIN store
    /\ proc[p].link.filePath = <<"root", "/", "a", ".", "meta">>
    /\ proc[p].link.isMetadata

\* C17: getMetadata builds its record from the sidecar when it is stored and
\* from nothing when it is absent; when the read of the sidecar fails for
\* another reason, getMetadata ends with that failure and returns no
\* record.
C17_SidecarReadFailurePropagates ==
  \A p \in Procs :
    LET r == proc[p]
        key == r.metaLink.filePath
    IN (/\ Done(p, "getMetadata")
        /\ r.calls # <<>>
        /\ LastCall(r).call = "get")
       => /\ (LastCall(r).ok /\ r.err = None) =>
               \A q \in store[key].q : q[1] = "modified" \/ q \in r.res
          /\ (~LastCall(r).ok /\ key \notin DOMAIN store) =>
               r.err = None /\ Likes \notin r.res
          /\ (~LastCall(r).ok /\ key \in DOMAIN store) => r.err # None

\* C18: writeMetadata changes only the sidecar of its identifier: every
\* other key keeps its object, and the resource itself (the data object of
\* a document, the existence of a container) is as it was before the call.
C18_WriteMetadataChangesOnlySidecar ==
  \A p \in Procs :
    LET r == proc[p]
        sidecar == candidatePath(r.id, FALSE) \o metadataSuffix
    IN Done(p, "writeMetadata") =>
         /\ \A k \in (DOMAIN store \cup DOMAIN r.pre) \ {sidecar} :
              /\ k \in DOMAIN store /\ k \in DOMAIN r.pre
              /\ store[k] = r.pre[k]
         /\ existsIn(store, r.id) <=> existsIn(r.pre, r.id)

\* The listing of the read path has succeeded.
hasListed(r) ==
  \E i \in 1..Len(r.calls) : r.calls[i].call = "list" /\ r.calls[i].ok

\* C19: when the read path cannot list the parent of the candidate (the
\* listing fails, or nothing is stored under the parent), mapUrlToFilePath
\* does not fail: it returns the candidate key with the content type of the
\* candidate's own extension.
C19_UnlistableParentGivesCandidate ==
  \A p \in Procs :
    LET r == proc[p]
        cand == rootFilepath \o SliceFrom(r.id, Len(baseRequestURI)) \o
                (IF r.wrote THEN <<".", "meta">> ELSE <<>>)
    IN (/\ Done(p, "mapUrlToFilePath")
        /\ r.ct = None
        /\ ~isContainerIdentifier(r.id)
        /\ dollarSuffixLen(cand, wordEnds) = 0
        /\ ~hasListed(r) \/ list(r.pre, folderOf(cand)) = <<>>)
       => /\ r.err = None
          /\ r.link.filePath = cand
          /\ r.link.contentType = getContentTypeFromPath(cand)

\* The listing has failed while a key of the document was stored, and the
\* candidate came back.
C19_Witness ==
  \E p \in Procs :
    /\ Mapped(p)
    /\ proc[p].id = DocA /\ proc[p].ct = None /\ ~proc[p].wrote
    /\ ~hasListed(proc[p])
    /\ <<"root", "/", "a", "$", ".", "ttl">> \in DOMAIN store
    /\ proc[p].link.filePath = <<"root", "/", "a">>
    /\ proc[p].link.contentType = OctetStream

\* C20: mapFilePathToUrl fails with an internal error for every key that
\* does not begin with the root, so no key outside the root is translated
\* into an identifier.
C20_OutsideRootFails ==
  \A p \in Procs :
    LET r == proc[p]
    IN (Done(p, "mapFilePathToUrl") /\ ~StartsWith(r.id, <<"root">>))
       => r.err = "InternalServerError"

\* The bucket requests among the requests of a call.
bucketCalls(r) ==
  SelectSeq(r.calls, LAMBDA c : c.call \in {"bucket", "bucketExists", "makeBucket"})

\* The call of a client method that the step has made, if any.
ClientStep(p) == proc'[p] # proc[p] /\ proc'[p].client # None

C21_Step ==
  \A p \in Procs :
    LET r == proc'[p]
        c == r.client
    IN ClientStep(p) =>
         /\ bucketCreated[c] =>
              /\ bucketCalls(r) = <<>>
              /\ bucketCreated'[c]
              /\ r.op = "createBucket" => r.calls = <<>> /\ r.err = None
         /\ (r.op = "createBucket" /\ r.err = None) =>
              bucketCreated'[c] /\ bucketExists'
         /\ (\E i \in 1..Len(r.calls) : r.calls[i].call = "makeBucket") =>
              ~bucketExists /\ bucketExists'
         /\ bucketExists => bucketExists'

\* C21: once createBucket has succeeded on a client (bucket found or
\* created), every later call on that client, direct or from another
\* method, returns without a bucket request and leaves the flag set; the
\* bucket is made only when it does not exist, so at most once.
C21_CreateBucketCached == [][C21_Step]_vars

\* A createBucket on a client whose flag was set has returned without a
\* request.
C21_Witness ==
  \E p \in Procs :
    /\ Done(p, "createBucket")
    /\ proc[p].err = None
    /\ proc[p].calls = <<>>
    /\ bucketCreated[proc[p].client]
    /\ bucketExists

C22_Step ==
  \A p \in Procs :
    LET r == proc'[p]
        c == r.client
    IN (ClientStep(p) /\ r.op \in {"stats", "write", "writeContainer", "read", "list"})
       => /\ (\E i \in 1..Len(r.calls) : r.calls[i].call = "bucket") =>
               /\ r.err = "BackendError"
               /\ Len(r.calls) = 1
               /\ store' = store
               /\ ~bucketCreated'[c]
          /\ ~bucketCreated[c] =>
               /\ r.calls # <<>>
               /\ r.calls[1].call \in {"bucket", "bucketExists"}

\* C22: when the bucket check or the bucket creation fails during stats,
\* write, writeContainer, read or list, the method ends with that failure
\* after the failed bucket request alone (no object request, the store
\* unchanged) and the flag stays unset; a method called while the flag is
\* unset begins with a bucket request.
C22_BucketFailureAborts == [][C22_Step]_vars

\* A write has been aborted by a failed bucket request.
C22_Witness ==
  \E p \in Procs :
    LET r == proc[p]
    IN /\ Done(p, "write")
       /\ r.err = "BackendError"
       /\ r.calls = <<[call |-> "bucket", key |-> <<>>, ok |-> FALSE]>>
       /\ ~bucketCreated[r.client]
       /\ store = r.pre

\* C23: write and delete do not raise when the put or the remove fails:
\* each returns true exactly when its object request succeeded and false
\* otherwise, and delete of an absent object returns without raising.
C23_WriteDeleteReturnBoolean ==
  \A p \in Procs :
    LET r == proc[p]
    IN /\ (Done(p, "write") /\ r.calls # <<>> /\ LastCall(r).call = "put") =>
            /\ r.err = None
            /\ r.ret = retOf(LastCall(r).ok)
            /\ LastCall(r).ok <=> (r.id \in DOMAIN store /\ store[r.id].v = r.data)
       /\ Done(p, "delete") =>
            /\ r.err = None
            /\ r.calls # <<>> /\ LastCall(r).call = "remove"
            /\ r.ret = retOf(LastCall(r).ok)
            /\ LastCall(r).ok => r.id \notin DOMAIN store

\* A write whose put has failed has returned false.
C23_Witness ==
  \E p \in Procs :
    LET r == proc[p]
    IN /\ Done(p, "write")
       /\ r.err = None
       /\ r.calls # <<>> /\ LastCall(r).call = "put" /\ ~LastCall(r).ok
       /\ r.ret = "false"

\* The objects of an attribute in a metadata record.
attributeOf(md, name) == {q[2] : q \in {x \in md : x[1] = name}}

\* C24: the record getMetadata returns for a container holds no size, the
\* record it returns for a document holds exactly one size, the size of the
\* object that stores the bytes of that document; both hold the
\* modification time.
C24_SizeOnlyForDocuments ==
  \A p \in Procs :
    LET r == proc[p]
    IN (Done(p, "getMetadata") /\ r.err = None)
       => /\ attributeOf(r.res, "modified") # {}
          /\ isContainerIdentifier(r.id) => attributeOf(r.res, "size") = {}
          /\ ~isContainerIdentifier(r.id) =>
               \E k \in dataKeysOf(store, r.id) :
                 attributeOf(r.res, "size") = {sizeOf(store[k])}

\* C25: getMetadata fails with NotFound when the trailing separator of the
\* identifier does not match the kind of what is stored: for a stored
\* document D and no container D/, getMetadata(D/) fails; for a stored
\* container C/ and no document C, getMetadata(C) fails.
C25_TrailingSlashMismatchNotFound ==
  \A p \in Procs :
    LET r == proc[p]
    IN Done(p, "getMetadata") =>
         /\ (/\ isContainerIdentifier(r.id)
             /\ existsIn(store, DropLast(r.id, 1))
             /\ ~existsIn(store, r.id))
            => r.err = "NotFound"
         /\ (/\ ~isContainerIdentifier(r.id)
             /\ existsIn(store, r.id \o <<"/">>)
             /\ ~existsIn(store, r.id))
            => r.err = "NotFound"

\* The error the validation of an identifier is to end with, or none.
expectedError(identifier) ==
  IF ~StartsWith(identifier, <<"base">>) THEN "NotFound"
  ELSE IF ~StartsWith(SliceFrom(identifier, 1), <<"/">>) THEN "BadRequest"
  ELSE IF HasParentSegment(SliceFrom(identifier, 1)) THEN "BadRequest"
  ELSE None

\* getData, getMetadata and writeDocument end with the error of the
\* validation without a request to the backend.
accessorRejects(p) ==
  LET r == proc[p]
  IN (/\ r.pc = "done"
      /\ r.op \in {"getData", "getMetadata", "writeDocument"}
      /\ expectedError(r.id) # None)
     => /\ r.err = expectedError(r.id)
        /\ r.calls = <<>>
        /\ store = r.pre

typeOfExtension(e) ==
  IF e = <<"txt">> THEN TextPlain
  ELSE IF e = <<"ttl">> \/ e = <<"meta">> THEN TextTurtle
  ELSE IF e = <<"xml">> THEN ApplicationXml
  ELSE OctetStream

\* A key of a document has been mapped back to its identifier.
MappedBack(p) ==
  /\ Done(p, "mapFilePathToUrl")
  /\ proc[p].err = None
  /\ ~isContainerPath(proc[p].id)

\* C27 as stated: for the key of a document, mapFilePathToUrl takes the
\* content type from the extension of the path that is left when the
\* "$." + extension suffix is stripped, and the default type when that path
\* has no extension.
C27_TypeFromStrippedPath ==
  \A p \in Procs :
    LET r == proc[p]
        logical == DropLast(r.id, dollarSuffixLen(r.id, extensionEnds))
    IN MappedBack(p) => r.link.contentType = typeOfExtension(getExtension(logical))

\* C27: for the key of a document, mapFilePathToUrl takes the content type
\* from the extension of the key itself, which is the extension of the
\* "$." + extension suffix when the key has one, and the default type when
\* the key has no extension or one the tables do not know; the identifier
\* is built from the path without the suffix.
C27_TypeFromKeyExtension ==
  \A p \in Procs :
    LET r == proc[p]
        logical == DropLast(r.id, dollarSuffixLen(r.id, extensionEnds))
    IN MappedBack(p) =>
         /\ r.link.contentType = typeOfExtension(getExtension(r.id))
         /\ StartsWith(r.id, <<"root">>) =>
              r.link.identifier =
                <<"base">> \o SliceFrom(IF r.link.isMetadata THEN DropLast(logical, 2)
                                       ELSE logical, 1)

\* A key whose suffix and whose own extension name different types has
\* been mapped back with the type of the suffix.
C27_Witness ==
  \E p \in Procs :
    /\ MappedBack(p)
    /\ proc[p].id = <<"root", "/", "a", ".", "txt", "$", ".", "ttl">>
    /\ proc[p].link.contentType = TextTurtle
    /\ proc[p].link.identifier = DocATxt

statCalls(r) == SelectSeq(r.calls, LAMBDA c : c.call = "stat")

\* C29: getChildren visits every entry of the listing it took, in order: an
\* entry whose stats fail (deleted by another request after the listing) is
\* skipped without ending the enumeration, the entries after it are still
\* visited, and the records yielded are those of the listed entries whose
\* stats succeeded, so a document written after the listing is not among
\* them.
C29_ListingIsSnapshot ==
  \A p \in Procs :
    LET r == proc[p]
        listing == list(r.snap, r.link.filePath)
        sc == statCalls(r)
    IN (Done(p, "getChildren") /\ hasListed(r))
       => /\ r.err = None
          /\ Len(sc) = Len(listing)
          /\ \A i \in 1..Len(sc) : sc[i].key = statsKey(listing[i])
          /\ {ch.identifier : ch \in r.children} =
               {mapFilePathToUrl(listing[i], isContainerPath(listing[i])).identifier :
                  i \in {j \in 1..Len(sc) : sc[j].ok /\ ~isMetadataPath(listing[j])}}

\* An entry deleted after the listing has been skipped, the entry after it
\* has been yielded, and a document written after the listing is stored but
\* not among the records.
C29_Witness ==
  \E p \in Procs :
    LET r == proc[p]
        sc == statCalls(r)
    IN /\ Done(p, "getChildren") /\ r.err = None
       /\ Len(sc) = 2
       /\ ~sc[1].ok /\ sc[1].key \in DOMAIN r.snap /\ sc[1].key \notin DOMAIN store
       /\ sc[2].ok
       /\ {ch.identifier : ch \in r.children} = {DocCC}
       /\ candidatePath(DocCABang, FALSE) \in DOMAIN store \ DOMAIN r.snap

\* A writeDocument between its first and its last backend round trip.
Writing(p) == proc[p].op = "writeDocument" /\ proc[p].pc \notin {"idle", "done"}

\* Both calls have returned normally, and they are the only calls made.
BothWritten ==
  /\ nops = 2
  /\ \A p \in Procs : Done(p, "writeDocument") /\ proc[p].err = None

\* C30: no position of a writeDocument waits for the other call on the same
\* identifier: whatever the other call is doing, a call under way stands at
\* a backend round trip it can take. Once both calls have returned, each
\* stored object of the identifier is the one some call put, in any
\* pairing: when both map to one key the data is that of either call and
\* the sidecar that of either call, and when they map to different keys and
\* neither found the object of the other during its extension check, both
\* data objects are stored.
C30_WritersNotExcluded ==
  /\ \A p \in Procs : Writing(p) => \E pc \in RacePcs : Running(p, pc)
  /\ BothWritten =>
       LET k1 == proc[1].link.filePath
           k2 == proc[2].link.filePath
           side == proc[1].metaLink.filePath
       IN /\ proc[2].metaLink.filePath = side
          /\ side \in DOMAIN store
          /\ store[side].q \in {proc[1].quads, proc[2].quads}
          /\ k1 = k2 => k1 \in DOMAIN store /\ store[k1].v \in {proc[1].data, proc[2].data}
          /\ (k1 # k2 /\ proc[1].oldLink.filePath # k2 /\ proc[2].oldLink.filePath # k1)
             => /\ k1 \in DOMAIN store /\ store[k1].v = proc[1].data
                /\ k2 \in DOMAIN store /\ store[k2].v = proc[2].data

\* Both calls have returned on the same key: the sidecar holds the record of
\* one call and the data object the bytes of the other.
C30_Witness ==
  /\ BothWritten
  /\ \E p \in Procs, q \in Procs :
       LET k == proc[p].link.filePath
           side == proc[p].metaLink.filePath
       IN /\ p # q /\ proc[q].link.filePath = k
          /\ proc[p].quads # proc[q].quads
          /\ k \in DOMAIN store /\ store[k].v = proc[q].data
          /\ side \in DOMAIN store /\ store[side].q = proc[p].quads

\* Both calls have returned on different keys: two data objects of the
\* identifier are stored, one from each call, next to one sidecar.
C30_TwoDataObjects ==
  /\ BothWritten
  /\ \E p \in Procs, q \in Procs :
       LET kp == proc[p].link.filePath
           kq == proc[q].link.filePath
           side == proc[p].metaLink.filePath
       IN /\ p # q /\ kp # kq
          /\ kp \in DOMAIN store /\ store[kp].v = proc[p].data
          /\ kq \in DOMAIN store /\ store[kq].v = proc[q].data
          /\ side \in DOMAIN store /\ store[side].q = proc[p].quads

\* No write of the client is under way.
ProvisionQuiet == \A p \in Procs : proc[p].pc \in {"idle", "done"}

\* C31: whatever the interleaving of the first writes of one client, no
\* write ends by an exception, and once every write has returned the bucket
\* exists and the flag of the client is set.
C31_RaceEndsProvisioned ==
  /\ \A p \in Procs : Done(p, "write") => proc[p].err = None
  /\ (ProvisionQuiet /\ \E p \in Procs : Done(p, "write"))
       => bucketExists /\ bucketCreated["accessor"]

\* C32: when the store holds the sidecar key of a document (its candidate
\* key followed by ".meta") and no data object of the document, the read
\* path maps the document to the sidecar key, as a metadata link of type
\* text/turtle.
C32_SidecarOnlyResolvesToSidecar ==
  \A p \in Procs :
    LET r == proc[p]
        sidecar == candidatePath(r.id, FALSE) \o metadataSuffix
    IN (/\ r.op = "getData"
        /\ r.link.err = None
        /\ ~isContainerIdentifier(r.id)
        /\ sidecar \in DOMAIN r.pre
        /\ dataKeysOf(r.pre, r.id) = {})
       => /\ r.link.filePath = sidecar
          /\ r.link.isMetadata
          /\ r.link.contentType = TextTurtle

\* The keys that belong to a document: those of its bytes and its sidecar.
ownKeys(s, identifier) ==
  dataKeysOf(s, identifier) \cup {candidatePath(identifier, FALSE) \o metadataSuffix}

\* C33: writeDocument and deleteResource on a document leave every object
\* of another identifier as it was: present, with the same content.
C33_OnlyOwnObjectsChange ==
  \A p \in Procs :
    LET r == proc[p]
    IN (/\ r.pc = "done"
        /\ r.op \in {"writeDocument", "deleteResource"}
        /\ ~isContainerIdentifier(r.id))
       => \A k \in DOMAIN r.pre \ ownKeys(r.pre, r.id) :
            k \in DOMAIN store /\ store[k] = r.pre[k]

\* C34: a writeDocument that has returned without error has left a data
\* object of the identifier that holds the written bytes, and a
\* writeContainer that has returned without error has left the marker of
\* the container.
C34_NormalReturnMeansStored ==
  \A p \in Procs :
    LET r == proc[p]
    IN /\ (Done(p, "writeDocument") /\ r.err = None)
          => \E k \in dataKeysOf(store, r.id) : store[k].v = r.data
       /\ (Done(p, "writeContainer") /\ r.err = None)
          => existsIn(store, r.id)

\* C35: writeMetadata leaves the existence of the resource as it was: a
\* resource that was stored is still stored when it returns (the marker of
\* a container is still present), and one that was not stored is not
\* stored afterwards.
C35_WriteMetadataKeepsExistence ==
  \A p \in Procs :
    LET r == proc[p]
    IN Done(p, "writeMetadata") => (existsIn(store, r.id) <=> existsIn(r.pre, r.id))

\* The put of the data object of the call has succeeded.
dataPut(r) ==
  \E i \in 1..Len(r.calls) :
    r.calls[i].call = "put" /\ r.calls[i].key = r.link.filePath /\ r.calls[i].ok

\* C36: a writeDocument that ends without having stored its data object,
\* by an error or by a failed put, leaves every data object the document
\* had before the call in the store, with its bytes.
C36_FailedWriteKeepsOldBytes ==
  \A p \in Procs :
    LET r == proc[p]
    IN (Done(p, "writeDocument") /\ ~dataPut(r))
       => \A k \in dataKeysOf(r.pre, r.id) :
            k \in DOMAIN store /\ store[k] = r.pre[k]

\* C37: a deleteResource or a writeDocument that the mapper rejects with
\* NotImplemented (an identifier that ends in "$." and an extension) has
\* sent no put and no delete, and the store is as it was before the call.
C37_RejectedLeavesStore ==
  \A p \in Procs :
    LET r == proc[p]
    IN (/\ r.pc = "done"
        /\ r.op \in {"deleteResource", "writeDocument"}
        /\ r.err = "NotImplemented")
       => ObjectCalls(r) = <<>> /\ store = r.pre

\* The key getData reads for a document on a store, <<>> when the mapper
\* rejects the identifier.
dataKeyOn(s, identifier) ==
  mapUrlToFilePath(identifier, FALSE, None, TRUE,
                   list(s, folderOf(candidatePath(identifier, FALSE)))).filePath

\* C38: a deleteResource of a container that has returned has removed the
\* marker of that container and nothing else: every other object is stored
\* as before, the listing of the prefix of the container is the same,
\* getMetadata and getData of every other resource answer as before, and
\* getMetadata of the container fails with NotFound.
C38_ContainerDeleteKeepsMembers ==
  \A p \in Procs :
    LET r == proc[p]
        path == candidatePath(r.id, FALSE)
        marker == containerFileName(path)
    IN (Done(p, "deleteResource") /\ isContainerIdentifier(r.id) /\ r.err = None)
       => /\ DOMAIN store = DOMAIN r.pre \ {marker}
          /\ \A k \in DOMAIN store : store[k] = r.pre[k]
          /\ list(store, path) = list(r.pre, path)
          /\ getMetadata(store, r.id).err = "NotFound"
          /\ \A x \in (ChildContainers \cup ChildDocs) \ {r.id} :
               /\ getMetadata(store, x) = getMetadata(r.pre, x)
               /\ ~isContainerIdentifier(x) =>
                    /\ dataKeyOn(store, x) = dataKeyOn(r.pre, x)
                    /\ readFound(store, dataKeyOn(store, x)) =
                       readFound(r.pre, dataKeyOn(r.pre, x))

\* The container base/c/ has been deleted while it held a document and a
\* sub-container: both are still stored under its prefix and readable, and
\* the document is still listed.
C38_Witness ==
  \E p \in Procs :
    LET r == proc[p]
    IN /\ Done(p, "deleteResource") /\ r.id = ContainerC /\ r.err = None
       /\ containerFileName(candidatePath(ContainerC, FALSE)) \in DOMAIN r.pre
       /\ Len(list(store, candidatePath(ContainerC, FALSE))) >= 1
       /\ \E k \in DOMAIN store :
            /\ StartsWith(k, candidatePath(ContainerCC, FALSE))
            /\ StartsWith(k, candidatePath(ContainerC, FALSE))
       /\ getMetadata(store, DocCA).err = None
       /\ readFound(store, dataKeyOn(store, DocCA))
       /\ getMetadata(store, ContainerCC).err = None
       /\ getMetadata(store, ContainerC).err = "NotFound"

====
